---- MODULE Spec2Model ----
(***************************************************************************)
(* Batch Submission Controller of add10wordsUI (component AddWords) and the *)
(* word lists of its parent (component Dashboard).                         *)
(*                                                                         *)
(* The repository holds two versions of the component:                     *)
(*   impl = "opt"   src/src/components/AddWords.tsx  (useReducer,          *)
(*                  optimistic submit with snapshot rollback)              *)
(*   impl = "pess"  src/unnamed/part_003             (useState,            *)
(*                  pessimistic submit, local duplicate check, mirror)     *)
(* Both are modelled over the same state variables; impl is fixed by Init. *)
(*                                                                         *)
(* A string is a sequence of one-character strings, so that split, trim    *)
(* and toLowerCase are computed and not assumed.                           *)
(*                                                                         *)
(* Specifications:                                                         *)
(*   Spec      the mounted component driven through its controls           *)
(*   SpecCall  Spec plus handleValidate called past the disabled button    *)
(*   SpecFn    parsed, buildFinal and isFinalValid applied to bounded      *)
(*             inputs                                                      *)
(*   SpecDash  the Dashboard: its filters, its GET /words loads and the    *)
(*             lists they store                                            *)
(*   SpecAuth  the session: AuthProvider, ProtectedRoute, Login, Signup    *)
(* After Unmount the variables record what the setters are called with.    *)
(***************************************************************************)
EXTENDS Integers, Sequences, FiniteSets, TLC

VARIABLES
    impl,          \* which version of the component is mounted
    hasOnAdded,    \* whether the caller passed the onAdded prop
    text,          \* raw input
    conflicts,     \* Null or [db, inBatch]
    replacements,  \* function: key -> replacement string
    message,       \* NoMessage or a message
    loading,
    savedWords,    \* sequence of [word, wordLower]
    savedLoading,
    savedError,    \* NoMessage or a message
    pc,            \* where the running handler is suspended
    req,           \* word list carried by the request in flight
    closure,       \* render-time state captured by the running handleValidate
    rollbackRef,   \* rollbackRef.current (opt)
    loadPc,        \* mount-time load() of the mirror (pess): "get" while awaiting
    cancelled,     \* cleanup flag of the mount effect; TRUE once unmounted
    trigger,       \* history: control that started the running handler
    userActed,     \* history: user acted since the request in flight was sent
    textAtSubmit,  \* history: text when submitFinal was entered
    lastResp,      \* history: response most recently handed to a handler
    fnArgs,        \* render state handed to the derived functions (SpecFn)
    fnResult,      \* what parsed, buildFinal and isFinalValid returned for it
    allWords,      \* Dashboard: JavaScript value held by the state allWords
    myWords,       \* Dashboard: JavaScript value held by the state myWords
    filters,       \* Dashboard: [sort, from, to, q]
    dashLoading,   \* Dashboard: the state loading
    inFlight,      \* Dashboard: the calls of load awaiting api.get, [id, params]
    issued,        \* Dashboard: number of calls of load so far
    effectDue,     \* Dashboard: a render changed [user, filters], effect not run
    onAddedRef,    \* Null or the onAdded a running submitFinal was rendered with
    latest,        \* history: what the most recently called load stored, or Null
    user,          \* AuthProvider: the state user, Null or a JavaScript value
    authLoading,   \* AuthProvider: the state loading
    bootGets,      \* runs of the mount effect whose GET /auth/me is awaited
    bootLive,      \* the run of the mount effect with mounted = true, 0: not run
    route,         \* path the router renders
    logins,        \* running handle calls of Login, by await and form instance
    msg,           \* Login: the state msg
    isLoading,     \* Login (part_002): the state isLoading
    signups,       \* running submit calls of Signup, by form instance
    signupMsg,     \* Signup: the state msg
    logouts,       \* running logout calls
    lastAuth       \* history: the step of the session taken last

vars == <<impl, hasOnAdded, text, conflicts, replacements, message, loading,
          savedWords, savedLoading, savedError, pc, req, closure, rollbackRef,
          loadPc, cancelled, trigger, userActed, textAtSubmit, lastResp,
          fnArgs, fnResult, allWords, myWords, filters, dashLoading,
          inFlight, issued, effectDue, onAddedRef, latest, user, authLoading,
          bootGets, bootLive, route, logins, msg, isLoading, signups,
          signupMsg, logouts, lastAuth>>

compState == <<text, conflicts, replacements, message, loading,
               savedWords, savedLoading, savedError>>

-----------------------------------------------------------------------------
(* Strings *)

Null == [null |-> TRUE]
NoMessage == "<null>"

Lower(c) ==
    CASE c = "A" -> "a"
      [] c = "B" -> "b"
      [] c = "K" -> "k"
      [] OTHER   -> c

ToLowerCase(s) == [i \in 1..Len(s) |-> Lower(s[i])]

IsWhite(c) == c \in {" ", "\n", "\t"}

RECURSIVE TrimStart(_)
TrimStart(s) ==
    IF s = <<>> THEN <<>>
    ELSE IF IsWhite(Head(s)) THEN TrimStart(Tail(s)) ELSE s

RECURSIVE TrimEnd(_)
TrimEnd(s) ==
    IF s = <<>> THEN <<>>
    ELSE IF IsWhite(s[Len(s)]) THEN TrimEnd(SubSeq(s, 1, Len(s) - 1)) ELSE s

Trim(s) == TrimEnd(TrimStart(s))

normalize(word) == Trim(word)

Range(s) == {s[i] : i \in 1..Len(s)}

LowerAll(s) == [i \in 1..Len(s) |-> ToLowerCase(s[i])]

NormalizeAll(s) == [i \in 1..Len(s) |-> normalize(s[i])]

(* the entries of s at the indices in I between lo and hi, in order; the     *)
(* range is halved so that a list of ParseCap words stays shallow            *)
RECURSIVE Pick(_, _, _, _)
Pick(s, I, lo, hi) ==
    IF lo > hi THEN <<>>
    ELSE IF lo = hi THEN (IF lo \in I THEN <<s[lo]>> ELSE <<>>)
    ELSE LET mid == (lo + hi) \div 2
         IN Pick(s, I, lo, mid) \o Pick(s, I, mid + 1, hi)

(* Array.prototype.filter(Boolean) on strings *)
FilterNonEmpty(s) == Pick(s, {i \in 1..Len(s) : s[i] # <<>>}, 1, Len(s))

Slice(s, n) == SubSeq(s, 1, IF Len(s) < n THEN Len(s) ELSE n)

(* String.prototype.split with a regular expression of the form [class]+ :  *)
(* every maximal run of class characters is one separator; a separator at   *)
(* either end leaves an empty token there.                                  *)
(* A token starts at the beginning of the string and after every run.       *)
TokenStarts(s, D) ==
    {i \in 1..(Len(s) + 1) :
        \/ i = 1
        \/ s[i - 1] \in D /\ (i = Len(s) + 1 \/ s[i] \notin D)}

(* index of the last character of the token that starts at i *)
TokenEnd(s, D, i) ==
    CHOOSE j \in (i - 1)..Len(s) :
        /\ \A k \in i..j : s[k] \notin D
        /\ j = Len(s) \/ s[j + 1] \in D

Split(s, D) ==
    LET starts == Pick([i \in 1..(Len(s) + 1) |-> i], TokenStarts(s, D),
                       1, Len(s) + 1)
    IN [n \in 1..Len(starts) |-> SubSeq(s, starts[n], TokenEnd(s, D, starts[n]))]

ParseCap == 100
RequiredCount == 10

DelimsPess == {"\n", ",", ";"}
DelimsOpt == {"\n", ",", ";", " ", "\t", "\""}

(* parsed without .slice(0, 100) *)
parsedPess_uncapped(t) == FilterNonEmpty(NormalizeAll(Split(t, DelimsPess)))

parsedPess(t) == Slice(FilterNonEmpty(NormalizeAll(Split(t, DelimsPess))), ParseCap)
parsedOpt(t) == Slice(FilterNonEmpty(NormalizeAll(Split(t, DelimsOpt))), ParseCap)

parsed(v, t) == IF v = "opt" THEN parsedOpt(t) ELSE parsedPess(t)

-----------------------------------------------------------------------------
(* Derived values of a render *)

Count(s, x) == Cardinality({i \in 1..Len(s) : s[i] = x})

(* keys of a Map in insertion order *)
Dedup(s) ==
    Pick(s, {i \in 1..Len(s) : \A j \in 1..(i - 1) : s[j] # s[i]}, 1, Len(s))

(* .filter(([, c]) => c > 1) *)
SelectMultiple(keys, all) ==
    Pick(keys, {i \in 1..Len(keys) : Count(all, keys[i]) > 1}, 1, Len(keys))

(* inBatchDupKeys counting the words as typed *)
inBatchDupKeys_caseSensitive(p) ==
    SelectMultiple(Dedup(p), p)

inBatchDupKeys(p) ==
    LET lowers == LowerAll(p)
    IN SelectMultiple(Dedup(lowers), lowers)

(* buildFinal applying a replacement to the first occurrence of its key only *)
buildFinalPess_firstOnly(p, reps) ==
    [i \in 1..Len(p) |->
        LET key == ToLowerCase(p[i])
            has == key \in DOMAIN reps
                   /\ \A j \in 1..(i - 1) : ToLowerCase(p[j]) # key
        IN IF has /\ Trim(reps[key]) # <<>> THEN Trim(reps[key]) ELSE Trim(p[i])]

buildFinalPess(p, reps) ==
    [i \in 1..Len(p) |->
        LET key == ToLowerCase(p[i])
            has == key \in DOMAIN reps
        IN IF has /\ Trim(reps[key]) # <<>> THEN Trim(reps[key]) ELSE Trim(p[i])]

(* buildFinal returning the replacement as typed *)
buildFinalOpt_untrimmed(p, reps) ==
    [i \in 1..Len(p) |->
        LET key == ToLowerCase(p[i])
        IN IF key \in DOMAIN reps /\ reps[key] # <<>> /\ Trim(reps[key]) # <<>>
           THEN reps[key] ELSE Trim(p[i])]

buildFinalOpt(p, reps) ==
    [i \in 1..Len(p) |->
        LET key == ToLowerCase(p[i])
        IN IF key \in DOMAIN reps /\ reps[key] # <<>> /\ Trim(reps[key]) # <<>>
           THEN Trim(reps[key]) ELSE Trim(p[i])]

buildFinal(v, t, reps) ==
    IF v = "opt" THEN buildFinalOpt(parsedOpt(t), reps)
    ELSE buildFinalPess(parsedPess(t), reps)

(* isFinalValid comparing the words as typed *)
isFinalValidPess_caseSensitive(final) ==
    IF Len(final) # RequiredCount THEN FALSE
    ELSE IF \E i \in 1..Len(final) : final[i] = <<>> THEN FALSE
    ELSE Cardinality(Range(final)) = RequiredCount

isFinalValidPess(final) ==
    IF Len(final) # RequiredCount THEN FALSE
    ELSE IF \E i \in 1..Len(final) : final[i] = <<>> THEN FALSE
    ELSE Cardinality(Range(LowerAll(final))) = RequiredCount

isFinalValidOpt(final) ==
    IF Len(final) # RequiredCount THEN FALSE
    ELSE Cardinality(Range(LowerAll(final))) = RequiredCount

isFinalValid(v, t, reps) ==
    IF v = "opt" THEN isFinalValidOpt(buildFinal(v, t, reps))
    ELSE isFinalValidPess(buildFinal(v, t, reps))

(* {} with the given keys set to "" in order; a later duplicate rewrites "" *)
initReplacementsFromList(keys) ==
    [k \in Range(LowerAll(keys)) |-> <<>>]

SetKey(reps, k, v) ==
    [x \in DOMAIN reps \cup {k} |-> IF x = k THEN v ELSE reps[x]]

EmptyMap == [k \in {} |-> <<>>]

ConflictKeys(c) == IF c = Null THEN {} ELSE Range(c.db) \cup Range(c.inBatch)

LowerConflicts(c) ==
    [db |-> LowerAll(c.db), inBatch |-> LowerAll(c.inBatch)]

-----------------------------------------------------------------------------
(* Messages (the dash of two of them is written - here) *)

MsgSuccess == "Words added successfully!"
MsgReplaceLocal == "Please replace the duplicate words shown below."
MsgReplaceServer == "Some words are duplicates - please replace them."
MsgConflictOnSubmit == "Conflicts detected on submit - please replace highlighted words."
MsgValidationFailed == "Validation failed"
MsgSubmitFailed == "Submit failed"
(* `Please enter exactly 10 words. You entered ${parsedCount}.` *)
MsgWrongCount_fixed(parsedCount) ==
    "Please enter exactly 10 words. You entered some."

MsgWrongCount(parsedCount) ==
    "Please enter exactly 10 words. You entered " \o ToString(parsedCount) \o "."
MsgNotValid == "Final list must be exactly 10 unique non-empty words."
MsgSavedFailed == "Failed to load saved words"

(* err.response?.data?.error || fallback *)
ErrMessage(err, fallback) == IF err.error # "" THEN err.error ELSE fallback

-----------------------------------------------------------------------------
(* The reducer of AddWords.tsx *)

initialState ==
    [text |-> <<>>, conflicts |-> Null, replacements |-> EmptyMap,
     message |-> NoMessage, loading |-> FALSE,
     savedWords |-> <<>>, savedLoading |-> FALSE, savedError |-> NoMessage]

(* the reducer with RESET_FORM returning the initial state *)
reducer_resetAll(state, action) ==
    CASE action.type = "SET_TEXT" -> [state EXCEPT !.text = action.text]
      [] action.type = "SET_LOADING" -> [state EXCEPT !.loading = action.value]
      [] action.type = "SET_MESSAGE" -> [state EXCEPT !.message = action.message]
      [] action.type = "SET_CONFLICTS" -> [state EXCEPT !.conflicts = action.conflicts]
      [] action.type = "SET_REPLACEMENTS" ->
            [state EXCEPT !.replacements = action.replacements]
      [] action.type = "RESET_FORM" ->
            initialState
      [] action.type = "SET_SAVED" -> [state EXCEPT !.savedWords = action.words]
      [] action.type = "ROLLBACK" -> action.snapshot
      [] OTHER -> state

reducer(state, action) ==
    CASE action.type = "SET_TEXT" -> [state EXCEPT !.text = action.text]
      [] action.type = "SET_LOADING" -> [state EXCEPT !.loading = action.value]
      [] action.type = "SET_MESSAGE" -> [state EXCEPT !.message = action.message]
      [] action.type = "SET_CONFLICTS" -> [state EXCEPT !.conflicts = action.conflicts]
      [] action.type = "SET_REPLACEMENTS" ->
            [state EXCEPT !.replacements = action.replacements]
      [] action.type = "RESET_FORM" ->
            [state EXCEPT !.text = <<>>, !.conflicts = Null, !.replacements = EmptyMap]
      [] action.type = "SET_SAVED" -> [state EXCEPT !.savedWords = action.words]
      [] action.type = "ROLLBACK" -> action.snapshot
      [] OTHER -> state

RECURSIVE dispatchAll(_, _)
dispatchAll(state, actions) ==
    IF actions = <<>> THEN state
    ELSE dispatchAll(reducer(state, Head(actions)), Tail(actions))

CurState ==
    [text |-> text, conflicts |-> conflicts, replacements |-> replacements,
     message |-> message, loading |-> loading,
     savedWords |-> savedWords, savedLoading |-> savedLoading,
     savedError |-> savedError]

Commit(s) ==
    /\ text' = s.text
    /\ conflicts' = s.conflicts
    /\ replacements' = s.replacements
    /\ message' = s.message
    /\ loading' = s.loading
    /\ savedWords' = s.savedWords
    /\ savedLoading' = s.savedLoading
    /\ savedError' = s.savedError

-----------------------------------------------------------------------------
(* Inputs: what the user types and what the services answer *)

RECURSIVE JoinRange(_, _, _, _)
JoinRange(words, d, lo, hi) ==
    IF lo > hi THEN <<>>
    ELSE IF lo = hi THEN words[lo]
    ELSE LET mid == (lo + hi) \div 2
         IN JoinRange(words, d, lo, mid) \o d \o JoinRange(words, d, mid + 1, hi)

(* Array.prototype.join *)
JoinWith(words, d) == JoinRange(words, d, 1, Len(words))

TextUnique ==
    JoinWith(<< <<"a">>, <<"b">>, <<"c">>, <<"d">>, <<"e">>,
                <<"f">>, <<"g">>, <<"h">>, <<"i">>, <<"j">> >>, <<",">>)
TextDup ==
    JoinWith(<< <<"a">>, <<"b">>, <<"A">>, <<"d">>, <<"e">>,
                <<"f">>, <<"g">>, <<"h">>, <<"i">>, <<"j">> >>, <<",">>)
TextOther ==
    JoinWith(<< <<" ", "k", " ">>, <<"B">>, <<"c">>, <<"d">>, <<"e">>,
                <<"f">>, <<"g">>, <<"h">>, <<"i">>, <<"j">> >>, <<";", "\n">>)
TextShort == <<"a", ",", "b">>

Texts == {<<>>, TextUnique, TextDup, TextOther, TextShort}

RepInputs == {<<>>, <<" ">>, <<"k", " ">>, <<"b">>}

ConflictPayloads ==
    { [db |-> << <<"a">> >>, inBatch |-> <<>>],
      [db |-> << <<"A">> >>, inBatch |-> <<>>],
      [db |-> <<>>, inBatch |-> << <<"b">> >>] }

ValidateData ==
    { [ok |-> TRUE, conflicts |-> Null],
      [ok |-> TRUE, conflicts |-> [db |-> <<>>, inBatch |-> <<>>]] }
    \cup { [ok |-> FALSE, conflicts |-> c] : c \in ConflictPayloads }

NetworkError == [status |-> 0, error |-> "", conflicts |-> Null]
ServerError == [status |-> 500, error |-> "Server error", conflicts |-> Null]
ConflictErrors ==
    { [status |-> 409, error |-> "Duplicate words", conflicts |-> c] :
        c \in ConflictPayloads }

PlainErrors == {NetworkError, ServerError}
Errors == PlainErrors \cup ConflictErrors

DocA == [word |-> <<" ", "A">>, wordLower |-> <<>>]
DocB == [word |-> <<"b">>, wordLower |-> <<"B">>]

(* res.data of GET /words as a JavaScript value: an array, an object with   *)
(* the properties all and mine, null or a string; a property is undefined,  *)
(* an array or a non-empty string                                           *)
JsUndefined == [t |-> "undefined"]
JsArray(s) == [t |-> "array", v |-> s]
JsText == [t |-> "string"]

DataArray(s) ==
    [kind |-> "array", items |-> s, all |-> JsUndefined, mine |-> JsUndefined]
DataObject(a, m) == [kind |-> "object", items |-> <<>>, all |-> a, mine |-> m]
DataNull ==
    [kind |-> "null", items |-> <<>>, all |-> JsUndefined, mine |-> JsUndefined]
DataString ==
    [kind |-> "string", items |-> <<>>, all |-> JsUndefined, mine |-> JsUndefined]

GetData ==
    { DataArray(<<DocA>>),
      DataObject(JsUndefined, JsArray(<<DocB>>)),
      DataNull }

(* every shape of res.data *)
DataShapes ==
    GetData \cup
    { DataArray(<<>>),
      DataObject(JsArray(<<DocA, DocB>>), JsArray(<<DocB>>)),
      DataObject(JsArray(<<DocA>>), JsUndefined),
      DataObject(JsUndefined, JsUndefined),
      DataObject(JsUndefined, JsText),
      DataObject(JsText, JsArray(<<DocB>>)),
      DataString }

NoResp == [op |-> "none", ok |-> TRUE, body |-> Null]

(* every key a conflict editor field can be shown for *)
EditorKeys ==
    UNION { Range(c.db) \cup Range(c.inBatch)
            \cup Range(LowerAll(c.db \o c.inBatch)) : c \in ConflictPayloads }
    \cup UNION { Range(inBatchDupKeys(parsedPess(t))) : t \in Texts }

(* the docs -> savedWords conversion shared by load() and the refresh *)
docsOf(data) ==
    IF data.kind = "array" THEN data.items
    ELSE IF data.kind # "null" /\ data.mine.t = "array" THEN data.mine.v
    ELSE <<>>

savedFromDoc(d) ==
    [word |-> Trim(d.word),
     wordLower |-> ToLowerCase(IF d.wordLower # <<>> THEN d.wordLower
                               ELSE ToLowerCase(d.word))]

savedFromData(data) ==
    LET docs == docsOf(data)
    IN [i \in 1..Len(docs) |-> savedFromDoc(docs[i])]

(* Dashboard.load: value || [] *)
OrEmptyList(value) == IF value.t = "undefined" THEN JsArray(<<>>) ELSE value

(* Dashboard.load: the values handed to setAllWords and setMyWords *)
dashFromData(data) ==
    IF data.kind = "array"
    THEN [allWords |-> JsArray(<<>>), myWords |-> JsArray(data.items)]
    ELSE [allWords |-> OrEmptyList(IF data.kind = "null" THEN JsUndefined
                                   ELSE data.all),
          myWords  |-> OrEmptyList(IF data.kind = "null" THEN JsUndefined
                                   ELSE data.mine)]

-----------------------------------------------------------------------------
Mounted ==
    /\ impl \in {"opt", "pess"}
    /\ hasOnAdded \in BOOLEAN
    /\ text = initialState.text
    /\ conflicts = initialState.conflicts
    /\ replacements = initialState.replacements
    /\ message = initialState.message
    /\ loading = initialState.loading
    /\ savedWords = initialState.savedWords
    /\ savedError = initialState.savedError
    \* pess: the mount effect has run load() up to its await
    /\ savedLoading = (impl = "pess")
    /\ loadPc = IF impl = "pess" THEN "get" ELSE "done"
    /\ cancelled = FALSE
    /\ pc = "idle"
    /\ req = <<>>
    /\ closure = Null
    /\ rollbackRef = Null
    /\ trigger = "none"
    /\ userActed = FALSE
    /\ textAtSubmit = <<>>
    /\ lastResp = NoResp

DefaultFilters == [sort |-> "date-desc", from |-> "", to |-> "", q |-> ""]

(* the Dashboard after its first render, before its effect has run *)
DashMounted ==
    /\ allWords = JsArray(<<>>)
    /\ myWords = JsArray(<<>>)
    /\ filters = DefaultFilters
    /\ dashLoading = FALSE
    /\ inFlight = {}
    /\ issued = 0
    /\ effectDue = TRUE
    /\ onAddedRef = Null
    /\ latest = Null

(* the session before the mount effect of AuthProvider has run *)
Paths == {"/login", "/signup", "/home"}

NoLogins == [post |-> 0, me |-> 0, orphanPost |-> 0, orphanMe |-> 0]
NoSignups == [live |-> 0, orphan |-> 0]

(* a step of the session: the operation, how it went on, whether its form    *)
(* is still rendered, the message handed to setMsg, and the request that    *)
(* was answered and whether it resolved                                     *)
Step(op, result, live, shown, request, resolved) ==
    [op |-> op, result |-> result, live |-> live, shown |-> shown,
     request |-> request, resolved |-> resolved]

AuthMounted ==
    /\ user = Null
    /\ authLoading = TRUE
    /\ bootGets = {}
    /\ bootLive = 0
    /\ route \in Paths
    /\ logins = NoLogins
    /\ msg = ""
    /\ isLoading = FALSE
    /\ signups = NoSignups
    /\ signupMsg = NoMessage
    /\ logouts = 0
    /\ lastAuth = Step("none", "none", TRUE, "", "none", TRUE)

Init ==
    /\ Mounted
    /\ DashMounted
    /\ AuthMounted /\ route = "/home"
    /\ fnArgs = Null
    /\ fnResult = Null

(* history of a user action: it counts as interference while a handler runs *)
Acted ==
    /\ userActed' = (userActed \/ pc # "idle")
    /\ lastResp' = NoResp

(* history reset when a handler run ends *)
Done ==
    /\ trigger' = "none"
    /\ userActed' = FALSE
    /\ textAtSubmit' = <<>>

handlerVars == <<pc, req, closure, rollbackRef, trigger, textAtSubmit>>
dashVars == <<allWords, myWords, filters, dashLoading, inFlight, issued,
              effectDue, onAddedRef, latest>>
authVars == <<user, authLoading, bootGets, bootLive, route, logins, msg,
              isLoading, signups, signupMsg, logouts, lastAuth>>
fixedVars == <<impl, hasOnAdded, fnArgs, fnResult, dashVars, authVars>>
mirrorVars == <<savedWords, savedLoading, savedError>>

-----------------------------------------------------------------------------
(* impl = "opt": src/src/components/AddWords.tsx *)

Opt_setText(t) ==
    /\ impl = "opt" /\ ~cancelled
    /\ t # text
    /\ Commit(reducer(CurState, [type |-> "SET_TEXT", text |-> t]))
    /\ Acted
    /\ UNCHANGED <<fixedVars, handlerVars, loadPc, cancelled>>

Opt_clear ==
    /\ impl = "opt" /\ ~cancelled
    /\ ~loading
    /\ Commit(reducer(CurState, [type |-> "RESET_FORM"]))
    /\ Acted
    /\ UNCHANGED <<fixedVars, handlerVars, loadPc, cancelled>>

Opt_editReplacement(k, v) ==
    /\ impl = "opt" /\ ~cancelled
    /\ conflicts # Null
    /\ k \in ConflictKeys(conflicts)
    /\ v # (IF k \in DOMAIN replacements THEN replacements[k] ELSE <<>>)
    /\ Commit(reducer(CurState, [type |-> "SET_REPLACEMENTS",
                                 replacements |-> SetKey(replacements, k, v)]))
    /\ Acted
    /\ UNCHANGED <<fixedVars, handlerVars, loadPc, cancelled>>

(* submitFinal without the RESET_FORM dispatch *)
Opt_submitFinal_noReset(snapshot, finalWords) ==
    /\ rollbackRef' = snapshot
    /\ Commit(dispatchAll(CurState,
          << [type |-> "SET_LOADING", value |-> TRUE],
             [type |-> "SET_MESSAGE", message |-> MsgSuccess] >>))
    /\ pc' = "submit"
    /\ req' = finalWords
    /\ textAtSubmit' = text
    /\ userActed' = FALSE

(* submitFinal up to its await: snapshot, optimistic update, POST /words *)
Opt_submitFinal(snapshot, finalWords) ==
    /\ rollbackRef' = snapshot
    /\ Commit(dispatchAll(CurState,
          << [type |-> "SET_LOADING", value |-> TRUE],
             [type |-> "SET_MESSAGE", message |-> MsgSuccess],
             [type |-> "RESET_FORM"] >>))
    /\ pc' = "submit"
    /\ req' = finalWords
    /\ textAtSubmit' = text
    /\ userActed' = FALSE

(* the catch of submitFinal without the ROLLBACK dispatch *)
Opt_submitCatch_noRollback(err) ==
    /\ Commit(dispatchAll(CurState,
          << [type |-> "SET_MESSAGE", message |-> ErrMessage(err, MsgSubmitFailed)],
             [type |-> "SET_LOADING", value |-> FALSE] >>))
    /\ rollbackRef' = Null
    /\ pc' = "idle"
    /\ req' = <<>>
    /\ Done

(* catch and finally of submitFinal (and the finally of a calling handleValidate) *)
Opt_submitCatch(err) ==
    /\ Commit(dispatchAll(
          IF rollbackRef # Null
          THEN reducer(CurState, [type |-> "ROLLBACK", snapshot |-> rollbackRef])
          ELSE CurState,
          << [type |-> "SET_MESSAGE", message |-> ErrMessage(err, MsgSubmitFailed)],
             [type |-> "SET_LOADING", value |-> FALSE] >>))
    /\ rollbackRef' = Null
    /\ pc' = "idle"
    /\ req' = <<>>
    /\ Done

Opt_submitFinally ==
    /\ Commit(reducer(CurState, [type |-> "SET_LOADING", value |-> FALSE]))
    /\ rollbackRef' = Null
    /\ pc' = "idle"
    /\ req' = <<>>
    /\ Done

Opt_handleValidateRun ==
    /\ lastResp' = NoResp
    /\ userActed' = FALSE
    /\ IF Len(parsedOpt(text)) # RequiredCount
       THEN /\ Commit(dispatchAll(CurState,
                  << [type |-> "SET_MESSAGE", message |-> NoMessage],
                     [type |-> "SET_CONFLICTS", conflicts |-> Null],
                     [type |-> "SET_MESSAGE",
                      message |-> MsgWrongCount(Len(parsedOpt(text)))] >>))
            /\ UNCHANGED <<pc, req, closure, trigger>>
       ELSE /\ Commit(dispatchAll(CurState,
                  << [type |-> "SET_MESSAGE", message |-> NoMessage],
                     [type |-> "SET_CONFLICTS", conflicts |-> Null],
                     [type |-> "SET_LOADING", value |-> TRUE] >>))
            /\ pc' = "validate"
            /\ req' = parsedOpt(text)
            /\ closure' = CurState
            /\ trigger' = "validate"
    /\ UNCHANGED <<fixedVars, rollbackRef, textAtSubmit, loadPc, cancelled>>

(* onClick of "Validate & Submit" *)
Opt_handleValidate ==
    /\ impl = "opt" /\ ~cancelled
    \* the button is disabled unless this holds
    /\ ~loading /\ Len(parsedOpt(text)) = RequiredCount
    /\ Opt_handleValidateRun

(* handleValidate called with the button's disabled attribute out of the way *)
Opt_callHandleValidate ==
    /\ impl = "opt" /\ ~cancelled
    /\ pc = "idle"
    /\ Opt_handleValidateRun

Opt_validateConflicts(data) ==
    /\ impl = "opt"
    /\ pc = "validate"
    /\ ~data.ok /\ data.conflicts # Null
    /\ Commit(dispatchAll(CurState,
          << [type |-> "SET_CONFLICTS", conflicts |-> data.conflicts],
             [type |-> "SET_REPLACEMENTS",
              replacements |->
                 [k \in Range(LowerAll(data.conflicts.db \o data.conflicts.inBatch))
                    |-> <<>>]],
             [type |-> "SET_MESSAGE", message |-> MsgReplaceServer],
             [type |-> "SET_LOADING", value |-> FALSE] >>))
    /\ pc' = "idle"
    /\ req' = <<>>
    /\ closure' = Null
    /\ lastResp' = [op |-> "validate", ok |-> TRUE, body |-> data]
    /\ Done
    /\ UNCHANGED <<fixedVars, rollbackRef, loadPc, cancelled>>

Opt_validateOk(data) ==
    /\ impl = "opt"
    /\ pc = "validate"
    /\ ~(~data.ok /\ data.conflicts # Null)
    /\ Opt_submitFinal(closure, buildFinal("opt", closure.text, closure.replacements))
    /\ closure' = Null
    /\ lastResp' = [op |-> "validate", ok |-> TRUE, body |-> data]
    /\ UNCHANGED <<fixedVars, trigger, loadPc, cancelled>>

Opt_validateFail(err) ==
    /\ impl = "opt"
    /\ pc = "validate"
    /\ Commit(dispatchAll(CurState,
          << [type |-> "SET_MESSAGE", message |-> ErrMessage(err, MsgValidationFailed)],
             [type |-> "SET_LOADING", value |-> FALSE] >>))
    /\ pc' = "idle"
    /\ req' = <<>>
    /\ closure' = Null
    /\ lastResp' = [op |-> "validate", ok |-> FALSE, body |-> err]
    /\ Done
    /\ UNCHANGED <<fixedVars, rollbackRef, loadPc, cancelled>>

Opt_submitReplacements ==
    /\ impl = "opt" /\ ~cancelled
    /\ conflicts # Null
    /\ isFinalValid("opt", text, replacements) /\ ~loading
    /\ Opt_submitFinal(CurState, buildFinal("opt", text, replacements))
    /\ trigger' = "replacements"
    /\ lastResp' = NoResp
    /\ UNCHANGED <<fixedVars, closure, loadPc, cancelled>>

Opt_submitOk ==
    /\ impl = "opt"
    /\ pc = "submit"
    /\ lastResp' = [op |-> "submit", ok |-> TRUE, body |-> Null]
    /\ IF hasOnAdded
       THEN /\ pc' = "onAdded"
            /\ UNCHANGED <<compState, req, rollbackRef, trigger, userActed,
                           textAtSubmit>>
       ELSE Opt_submitFinally
    /\ UNCHANGED <<fixedVars, closure, loadPc, cancelled>>

Opt_submitFail(err) ==
    /\ impl = "opt"
    /\ pc = "submit"
    /\ Opt_submitCatch(err)
    /\ lastResp' = [op |-> "submit", ok |-> FALSE, body |-> err]
    /\ UNCHANGED <<fixedVars, closure, loadPc, cancelled>>

Opt_onAddedResolved ==
    /\ impl = "opt"
    /\ pc = "onAdded"
    /\ Opt_submitFinally
    /\ lastResp' = [op |-> "onAdded", ok |-> TRUE, body |-> Null]
    /\ UNCHANGED <<fixedVars, closure, loadPc, cancelled>>

Opt_onAddedRejected(err) ==
    /\ impl = "opt"
    /\ pc = "onAdded"
    /\ Opt_submitCatch(err)
    /\ lastResp' = [op |-> "onAdded", ok |-> FALSE, body |-> err]
    /\ UNCHANGED <<fixedVars, closure, loadPc, cancelled>>

-----------------------------------------------------------------------------
(* impl = "pess": src/unnamed/part_003 *)

Pess_setText(t) ==
    /\ impl = "pess" /\ ~cancelled
    /\ t # text
    /\ text' = t
    /\ Acted
    /\ UNCHANGED <<fixedVars, conflicts, replacements, message, loading,
                   mirrorVars, handlerVars, loadPc, cancelled>>

Pess_clear ==
    /\ impl = "pess" /\ ~cancelled
    /\ ~loading
    /\ text' = <<>>
    /\ conflicts' = Null
    /\ replacements' = EmptyMap
    /\ message' = NoMessage
    /\ Acted
    /\ UNCHANGED <<fixedVars, loading, mirrorVars, handlerVars, loadPc, cancelled>>

Pess_editReplacement(k, v) ==
    /\ impl = "pess" /\ ~cancelled
    /\ conflicts # Null
    /\ k \in ConflictKeys(conflicts)
    /\ LET lowerKey == ToLowerCase(k)
       IN /\ v # (IF lowerKey \in DOMAIN replacements THEN replacements[lowerKey]
                  ELSE <<>>)
          /\ replacements' = SetKey(replacements, lowerKey, v)
    /\ Acted
    /\ UNCHANGED <<fixedVars, text, conflicts, message, loading,
                   mirrorVars, handlerVars, loadPc, cancelled>>

(* Cancel without setReplacements({}) *)
Pess_cancel_keepReplacements ==
    /\ impl = "pess" /\ ~cancelled
    /\ conflicts # Null
    /\ conflicts' = Null
    /\ UNCHANGED replacements
    /\ message' = NoMessage
    /\ Acted
    /\ UNCHANGED <<fixedVars, text, loading, mirrorVars, handlerVars,
                   loadPc, cancelled>>

Pess_cancel ==
    /\ impl = "pess" /\ ~cancelled
    /\ conflicts # Null
    /\ conflicts' = Null
    /\ replacements' = EmptyMap
    /\ message' = NoMessage
    /\ Acted
    /\ UNCHANGED <<fixedVars, text, loading, mirrorVars, handlerVars,
                   loadPc, cancelled>>

(* submitFinal up to its await *)
Pess_submitFinal(finalWords) ==
    /\ loading' = TRUE
    /\ message' = NoMessage
    /\ pc' = "submit"
    /\ req' = finalWords
    /\ textAtSubmit' = text
    /\ userActed' = FALSE

(* the catch of submitFinal without its finally *)
Pess_submitCatch_noFinally(err) ==
    /\ IF err.status = 409 /\ err.conflicts # Null
       THEN LET dbList == LowerAll(err.conflicts.db)
                batchList == LowerAll(err.conflicts.inBatch)
            IN /\ conflicts' = [db |-> dbList, inBatch |-> batchList]
               /\ replacements' = [k \in Range(dbList \o batchList) |-> <<>>]
               /\ message' = MsgConflictOnSubmit
       ELSE /\ message' = ErrMessage(err, MsgSubmitFailed)
            /\ UNCHANGED <<conflicts, replacements>>
    /\ UNCHANGED loading
    /\ pc' = "idle"
    /\ req' = <<>>
    /\ Done

(* catch and finally of submitFinal *)
Pess_submitCatch(err) ==
    /\ IF err.status = 409 /\ err.conflicts # Null
       THEN LET dbList == LowerAll(err.conflicts.db)
                batchList == LowerAll(err.conflicts.inBatch)
            IN /\ conflicts' = [db |-> dbList, inBatch |-> batchList]
               /\ replacements' = [k \in Range(dbList \o batchList) |-> <<>>]
               /\ message' = MsgConflictOnSubmit
       ELSE /\ message' = ErrMessage(err, MsgSubmitFailed)
            /\ UNCHANGED <<conflicts, replacements>>
    /\ loading' = FALSE
    /\ pc' = "idle"
    /\ req' = <<>>
    /\ Done

Pess_handleValidateRun ==
    /\ lastResp' = NoResp
    /\ userActed' = FALSE
    /\ IF Len(parsedPess(text)) # RequiredCount
       THEN /\ message' = MsgWrongCount(Len(parsedPess(text)))
            /\ conflicts' = Null
            /\ UNCHANGED <<replacements, loading, pc, req, closure, trigger>>
       ELSE IF Len(inBatchDupKeys(parsedPess(text))) > 0
       THEN LET inBatchLower == LowerAll(inBatchDupKeys(parsedPess(text)))
            IN /\ conflicts' = [db |-> <<>>, inBatch |-> inBatchLower]
               /\ replacements' = initReplacementsFromList(inBatchLower)
               /\ message' = MsgReplaceLocal
               /\ UNCHANGED <<loading, pc, req, closure, trigger>>
       ELSE /\ message' = NoMessage
            /\ conflicts' = Null
            /\ loading' = TRUE
            /\ pc' = "validate"
            /\ req' = parsedPess(text)
            /\ closure' = CurState
            /\ trigger' = "validate"
            /\ UNCHANGED replacements
    /\ UNCHANGED <<fixedVars, text, mirrorVars, rollbackRef, textAtSubmit,
                   loadPc, cancelled>>

(* onClick of "Validate & Submit" *)
Pess_handleValidate ==
    /\ impl = "pess" /\ ~cancelled
    \* the button is disabled unless this holds
    /\ ~loading /\ Len(parsedPess(text)) = RequiredCount
    /\ Pess_handleValidateRun

(* handleValidate called with the button's disabled attribute out of the way *)
Pess_callHandleValidate ==
    /\ impl = "pess" /\ ~cancelled
    /\ pc = "idle"
    /\ Pess_handleValidateRun

(* res.data?.conflicts ?? { db: [], inBatch: [] } *)
Pess_conflictsOf(data) ==
    IF data.conflicts # Null THEN data.conflicts ELSE [db |-> <<>>, inBatch |-> <<>>]

Pess_validateConflicts(data) ==
    /\ impl = "pess"
    /\ pc = "validate"
    /\ LET c == Pess_conflictsOf(data)
       IN /\ Len(c.db) > 0 \/ Len(c.inBatch) > 0
          /\ replacements' = [k \in Range(LowerAll(c.db \o c.inBatch)) |-> <<>>]
          /\ conflicts' = LowerConflicts(c)
    /\ message' = MsgReplaceServer
    /\ loading' = FALSE
    /\ pc' = "idle"
    /\ req' = <<>>
    /\ closure' = Null
    /\ lastResp' = [op |-> "validate", ok |-> TRUE, body |-> data]
    /\ Done
    /\ UNCHANGED <<fixedVars, text, mirrorVars, rollbackRef, loadPc, cancelled>>

(* handleValidate whose continuation reads the state of the latest render *)
Pess_validateOk_current(data) ==
    /\ impl = "pess"
    /\ pc = "validate"
    /\ LET c == Pess_conflictsOf(data)
       IN ~(Len(c.db) > 0 \/ Len(c.inBatch) > 0)
    /\ Pess_submitFinal(buildFinal("pess", text, replacements))
    /\ closure' = Null
    /\ lastResp' = [op |-> "validate", ok |-> TRUE, body |-> data]
    /\ UNCHANGED <<fixedVars, text, conflicts, replacements, mirrorVars,
                   rollbackRef, trigger, loadPc, cancelled>>

Pess_validateOk(data) ==
    /\ impl = "pess"
    /\ pc = "validate"
    /\ LET c == Pess_conflictsOf(data)
       IN ~(Len(c.db) > 0 \/ Len(c.inBatch) > 0)
    /\ Pess_submitFinal(buildFinal("pess", closure.text, closure.replacements))
    /\ closure' = Null
    /\ lastResp' = [op |-> "validate", ok |-> TRUE, body |-> data]
    /\ UNCHANGED <<fixedVars, text, conflicts, replacements, mirrorVars,
                   rollbackRef, trigger, loadPc, cancelled>>

Pess_validateFail(err) ==
    /\ impl = "pess"
    /\ pc = "validate"
    /\ message' = ErrMessage(err, MsgValidationFailed)
    /\ loading' = FALSE
    /\ pc' = "idle"
    /\ req' = <<>>
    /\ closure' = Null
    /\ lastResp' = [op |-> "validate", ok |-> FALSE, body |-> err]
    /\ Done
    /\ UNCHANGED <<fixedVars, text, conflicts, replacements, mirrorVars,
                   rollbackRef, loadPc, cancelled>>

Pess_handleSubmitReplacements ==
    /\ impl = "pess" /\ ~cancelled
    \* the button is rendered with the editor and disabled unless this holds
    /\ conflicts # Null
    /\ isFinalValid("pess", text, replacements) /\ ~loading
    /\ lastResp' = NoResp
    /\ IF ~isFinalValid("pess", text, replacements)
       THEN /\ message' = MsgNotValid
            /\ UNCHANGED <<loading, pc, req, textAtSubmit, userActed, trigger>>
       ELSE /\ Pess_submitFinal(buildFinal("pess", text, replacements))
            /\ trigger' = "replacements"
    /\ UNCHANGED <<fixedVars, text, conflicts, replacements, mirrorVars,
                   closure, rollbackRef, loadPc, cancelled>>

(* the success path with setLoading(false) moved before the awaits *)
Pess_submitOk_loadingOff ==
    /\ impl = "pess"
    /\ pc = "submit"
    /\ message' = MsgSuccess
    /\ text' = <<>>
    /\ conflicts' = Null
    /\ replacements' = EmptyMap
    /\ loading' = FALSE
    /\ pc' = IF hasOnAdded THEN "onAdded" ELSE "refresh"
    /\ req' = <<>>
    /\ lastResp' = [op |-> "submit", ok |-> TRUE, body |-> Null]
    /\ UNCHANGED <<fixedVars, mirrorVars, closure, rollbackRef, trigger,
                   userActed, textAtSubmit, loadPc, cancelled>>

Pess_submitOk ==
    /\ impl = "pess"
    /\ pc = "submit"
    /\ message' = MsgSuccess
    /\ text' = <<>>
    /\ conflicts' = Null
    /\ replacements' = EmptyMap
    /\ pc' = IF hasOnAdded THEN "onAdded" ELSE "refresh"
    /\ req' = <<>>
    /\ lastResp' = [op |-> "submit", ok |-> TRUE, body |-> Null]
    /\ UNCHANGED <<fixedVars, loading, mirrorVars, closure, rollbackRef, trigger,
                   userActed, textAtSubmit, loadPc, cancelled>>

Pess_submitFail(err) ==
    /\ impl = "pess"
    /\ pc = "submit"
    /\ Pess_submitCatch(err)
    /\ lastResp' = [op |-> "submit", ok |-> FALSE, body |-> err]
    /\ UNCHANGED <<fixedVars, text, mirrorVars, closure, rollbackRef, loadPc, cancelled>>

Pess_onAddedResolved ==
    /\ impl = "pess"
    /\ pc = "onAdded"
    /\ pc' = "refresh"
    /\ lastResp' = [op |-> "onAdded", ok |-> TRUE, body |-> Null]
    /\ UNCHANGED <<fixedVars, compState, req, closure, rollbackRef, trigger,
                   userActed, textAtSubmit, loadPc, cancelled>>

Pess_onAddedRejected(err) ==
    /\ impl = "pess"
    /\ pc = "onAdded"
    /\ Pess_submitCatch(err)
    /\ lastResp' = [op |-> "onAdded", ok |-> FALSE, body |-> err]
    /\ UNCHANGED <<fixedVars, text, mirrorVars, closure, rollbackRef, loadPc, cancelled>>

Pess_refreshOk(data) ==
    /\ impl = "pess"
    /\ pc = "refresh"
    /\ savedWords' = savedFromData(data)
    /\ loading' = FALSE
    /\ pc' = "idle"
    /\ lastResp' = [op |-> "refresh", ok |-> TRUE, body |-> data]
    /\ Done
    /\ UNCHANGED <<fixedVars, text, conflicts, replacements, message,
                   savedLoading, savedError, req, closure, rollbackRef, loadPc, cancelled>>

(* the refresh without its own try/catch: the error reaches the outer catch *)
Pess_refreshFail_outerCatch ==
    /\ impl = "pess"
    /\ pc = "refresh"
    /\ Pess_submitCatch(NetworkError)
    /\ lastResp' = [op |-> "refresh", ok |-> FALSE, body |-> Null]
    /\ UNCHANGED <<fixedVars, text, mirrorVars, closure, rollbackRef, loadPc, cancelled>>

Pess_refreshFail ==
    /\ impl = "pess"
    /\ pc = "refresh"
    /\ loading' = FALSE
    /\ pc' = "idle"
    /\ lastResp' = [op |-> "refresh", ok |-> FALSE, body |-> Null]
    /\ Done
    /\ UNCHANGED <<fixedVars, text, conflicts, replacements, message,
                   mirrorVars, req, closure, rollbackRef, loadPc, cancelled>>

(* load() of the mount effect, after its await *)
Pess_loadOk(data) ==
    /\ impl = "pess"
    /\ loadPc = "get"
    /\ loadPc' = "done"
    /\ IF cancelled
       THEN UNCHANGED mirrorVars
       ELSE /\ savedWords' = savedFromData(data)
            /\ savedLoading' = FALSE
            /\ UNCHANGED savedError
    /\ UNCHANGED <<fixedVars, text, conflicts, replacements, message, loading,
                   handlerVars, lastResp, userActed, cancelled>>

Pess_loadFail ==
    /\ impl = "pess"
    /\ loadPc = "get"
    /\ loadPc' = "failed"
    /\ IF cancelled
       THEN UNCHANGED mirrorVars
       ELSE /\ savedError' = MsgSavedFailed
            /\ savedWords' = <<>>
            /\ savedLoading' = FALSE
    /\ UNCHANGED <<fixedVars, text, conflicts, replacements, message, loading,
                   handlerVars, lastResp, userActed, cancelled>>

(* the component is torn down: the effect's cleanup runs, the UI is gone *)
Unmount ==
    /\ ~cancelled
    /\ cancelled' = TRUE
    /\ UNCHANGED <<fixedVars, compState, handlerVars, lastResp, userActed, loadPc>>

-----------------------------------------------------------------------------
Next ==
    \/ \E t \in Texts : Opt_setText(t)
    \/ Opt_clear
    \/ \E k \in EditorKeys, v \in RepInputs : Opt_editReplacement(k, v)
    \/ Opt_handleValidate
    \/ \E data \in ValidateData : Opt_validateConflicts(data)
    \/ \E data \in ValidateData : Opt_validateOk(data)
    \/ \E err \in PlainErrors : Opt_validateFail(err)
    \/ Opt_submitReplacements
    \/ Opt_submitOk
    \/ \E err \in Errors : Opt_submitFail(err)
    \/ Opt_onAddedResolved
    \/ \E err \in PlainErrors : Opt_onAddedRejected(err)
    \/ \E t \in Texts : Pess_setText(t)
    \/ Pess_clear
    \/ \E k \in EditorKeys, v \in RepInputs : Pess_editReplacement(k, v)
    \/ Pess_cancel
    \/ Pess_handleValidate
    \/ \E data \in ValidateData : Pess_validateConflicts(data)
    \/ \E data \in ValidateData : Pess_validateOk(data)
    \/ \E err \in PlainErrors : Pess_validateFail(err)
    \/ Pess_handleSubmitReplacements
    \/ Pess_submitOk
    \/ \E err \in Errors : Pess_submitFail(err)
    \/ Pess_onAddedResolved
    \/ \E err \in PlainErrors : Pess_onAddedRejected(err)
    \/ \E data \in GetData : Pess_refreshOk(data)
    \/ Pess_refreshFail
    \/ \E data \in GetData : Pess_loadOk(data)
    \/ Pess_loadFail
    \/ Unmount

Spec == Init /\ [][Next]_vars

(* The handlers as functions: handleValidate can also be called in a render  *)
(* whose button would be disabled, one call at a time.                       *)
NextCall ==
    \/ Next
    \/ Opt_callHandleValidate
    \/ Pess_callHandleValidate

SpecCall == Init /\ [][NextCall]_vars

-----------------------------------------------------------------------------
(* The derived functions of a render, applied to a text and a replacements   *)
(* map drawn from bounded sets.                                              *)

FnKeys == {<<"a">>, <<"b">>, <<"k">>, <<"A">>}

FnRepMaps == UNION { [D -> RepInputs] : D \in SUBSET FnKeys }

(* texts for the parser: a word with an inner space, runs of separators at  *)
(* both ends, a blank token, keys occurring two and three times, and one     *)
(* word more than the cap                                                    *)
TextInner == <<"a", " ", "b", ",", "c">>
TextRuns == <<",", ";", "\n", " ", "a", " ", ";", ";", "b", ",", "\n">>
TextBlank == <<"a", ",", " ", ",", "b">>
TextMulti ==
    JoinWith(<< <<"a">>, <<"A">>, <<"b">>, <<"a">>, <<"B">>, <<"c">> >>, <<",">>)
LongCount == ParseCap + 1
TextLong ==
    JoinWith([i \in 1..LongCount |-> IF i = LongCount THEN <<"b">> ELSE <<"a">>],
             <<",">>)
ParseTexts == {TextInner, TextRuns, TextBlank, TextMulti, TextLong}

JoinDelims == {",", ";", "\n"}

(* states and actions for the reducer *)
FullState ==
    [text |-> TextShort,
     conflicts |-> [db |-> << <<"a">> >>, inBatch |-> <<>>],
     replacements |-> SetKey(EmptyMap, <<"a">>, <<"b">>),
     message |-> MsgReplaceServer, loading |-> TRUE,
     savedWords |-> << savedFromDoc(DocB) >>, savedLoading |-> TRUE,
     savedError |-> MsgSavedFailed]

ReducerStates == {initialState, FullState}

ReducerActions ==
    { [type |-> "SET_TEXT", text |-> t] : t \in {<<>>, TextUnique} }
    \cup { [type |-> "SET_LOADING", value |-> b] : b \in BOOLEAN }
    \cup { [type |-> "SET_MESSAGE", message |-> m] : m \in {NoMessage, MsgSuccess} }
    \cup { [type |-> "SET_CONFLICTS", conflicts |-> c] :
              c \in {Null} \cup ConflictPayloads }
    \cup { [type |-> "SET_REPLACEMENTS", replacements |-> m] :
              m \in {EmptyMap, SetKey(EmptyMap, <<"b">>, <<"k", " ">>)} }
    \cup { [type |-> "RESET_FORM"] }
    \cup { [type |-> "SET_SAVED", words |-> w] :
              w \in {<<>>, << savedFromDoc(DocA) >>} }
    \cup { [type |-> "ROLLBACK", snapshot |-> st] : st \in ReducerStates }
    \cup { [type |-> "SET_SOMETHING_ELSE", value |-> TRUE] }

NoAction == [type |-> "@@INIT"]

FnInputs ==
    [text : Texts, replacements : FnRepMaps, data : {DataNull},
     state : {initialState}, action : {NoAction}]
    \cup [text : ParseTexts, replacements : {EmptyMap}, data : {DataNull},
          state : {initialState}, action : {NoAction}]
    \cup [text : {<<>>}, replacements : {EmptyMap}, data : DataShapes,
          state : {initialState}, action : {NoAction}]
    \cup [text : {<<>>}, replacements : {EmptyMap}, data : {DataNull},
          state : ReducerStates, action : ReducerActions]

InitFn ==
    /\ Mounted
    /\ DashMounted
    /\ AuthMounted /\ route = "/home"
    /\ fnArgs \in FnInputs
    /\ fnResult = Null

(* one render: parsed and inBatchDupKeys (useMemo), buildFinal() and         *)
(* isFinalValid(); parsed again of the words written back as a text; what    *)
(* the two loaders make of a GET /words response; and one call of the        *)
(* reducer                                                                   *)
Fn_render ==
    /\ fnResult = Null
    /\ fnResult' =
          [parsed |-> parsed(impl, fnArgs.text),
           dups   |-> IF impl = "pess"
                      THEN inBatchDupKeys(parsedPess(fnArgs.text)) ELSE Null,
           final  |-> buildFinal(impl, fnArgs.text, fnArgs.replacements),
           valid  |-> isFinalValid(impl, fnArgs.text, fnArgs.replacements),
           reparsed |-> [d \in JoinDelims |->
                           parsed(impl, JoinWith(parsed(impl, fnArgs.text), <<d>>))],
           saved  |-> savedFromData(fnArgs.data),
           dash   |-> dashFromData(fnArgs.data),
           reduced |-> reducer(fnArgs.state, fnArgs.action)]
    /\ UNCHANGED <<impl, hasOnAdded, fnArgs, dashVars, authVars, compState, handlerVars, loadPc,
                   cancelled, userActed, lastResp>>

NextFn == Fn_render

SpecFn == InitFn /\ [][NextFn]_vars

-----------------------------------------------------------------------------
(* The Dashboard: src/src/components/Dashboard.tsx. It is rendered behind   *)
(* the protected route, so user is set and the effect calls load. AddWords  *)
(* is its child and is seen from here through the prop onAdded only.        *)

MaxLoads == 3

(* values the filter controls are set to *)
FilterEdits ==
    { <<"sort", "alpha-asc">>, <<"sort", "date-desc">>,
      <<"q", "a">>, <<"q", "">> }

(* res.data of the GET /words of a load *)
DashData ==
    { DataArray(<<DocA>>),
      DataObject(JsArray(<<DocA, DocB>>), JsArray(<<DocB>>)) }

addWordsVars ==
    <<impl, hasOnAdded, fnArgs, fnResult, text, conflicts, replacements,
      message, loading, savedWords, savedLoading, savedError, pc, req,
      closure, rollbackRef, loadPc, cancelled, trigger, userActed,
      textAtSubmit, lastResp>>

(* load() up to its await: setLoading(true), then api.get with the filters  *)
(* of the render that made this load                                        *)
Dash_load(params) ==
    /\ issued < MaxLoads
    /\ dashLoading' = TRUE
    /\ issued' = issued + 1
    /\ inFlight' = inFlight \cup {[id |-> issued + 1, params |-> params]}
    /\ latest' = Null

(* useEffect(() => { if (user) load(); }, [user, filters]) *)
Dash_useEffect ==
    /\ effectDue
    /\ Dash_load(filters)
    /\ effectDue' = FALSE
    /\ UNCHANGED <<addWordsVars, authVars, allWords, myWords, filters, onAddedRef>>

(* onChange of a filter control: setFilters((s) => ({ ...s, [f]: v })) *)
Dash_setFilters(f, v) ==
    /\ ~effectDue /\ issued < MaxLoads
    /\ filters[f] # v
    /\ filters' = [filters EXCEPT ![f] = v]
    /\ effectDue' = TRUE
    /\ UNCHANGED <<addWordsVars, authVars, allWords, myWords, dashLoading, inFlight,
                   issued, onAddedRef, latest>>

(* Reset: setFilters of a new object with the default values *)
Dash_reset ==
    /\ ~effectDue /\ issued < MaxLoads
    /\ filters' = DefaultFilters
    /\ effectDue' = TRUE
    /\ UNCHANGED <<addWordsVars, authVars, allWords, myWords, dashLoading, inFlight,
                   issued, onAddedRef, latest>>

(* Apply: onClick={() => load()} *)
Dash_apply ==
    /\ ~effectDue
    /\ Dash_load(filters)
    /\ UNCHANGED <<addWordsVars, authVars, allWords, myWords, filters, effectDue,
                   onAddedRef>>

(* AddWords enters submitFinal: the handler holds the onAdded it was        *)
(* rendered with, whose load reads the filters of that render; a run whose  *)
(* POST /words failed has ended without calling the onAdded it held         *)
Dash_submitFinal ==
    /\ ~effectDue
    /\ onAddedRef # [params |-> filters]
    /\ onAddedRef' = [params |-> filters]
    /\ UNCHANGED <<addWordsVars, authVars, allWords, myWords, filters, dashLoading,
                   inFlight, issued, effectDue, latest>>

(* POST /words succeeded: await onAdded(), that is load() *)
Dash_onAdded ==
    /\ onAddedRef # Null
    /\ Dash_load(onAddedRef.params)
    /\ onAddedRef' = Null
    /\ UNCHANGED <<addWordsVars, authVars, allWords, myWords, filters, effectDue>>

(* a load ends: it stores its lists and then, in finally, setLoading(false) *)
Dash_stored(l, lists) ==
    /\ allWords' = lists.allWords
    /\ myWords' = lists.myWords
    /\ dashLoading' = FALSE
    /\ inFlight' = inFlight \ {l}
    /\ latest' = IF l.id = issued THEN lists ELSE latest
    /\ UNCHANGED <<addWordsVars, authVars, filters, issued, effectDue, onAddedRef>>

(* api.get resolved *)
Dash_loadOk(l, data) ==
    /\ l \in inFlight
    /\ Dash_stored(l, dashFromData(data))

(* api.get rejected: the catch stores two empty lists *)
Dash_loadFail(l) ==
    /\ l \in inFlight
    /\ Dash_stored(l, [allWords |-> JsArray(<<>>), myWords |-> JsArray(<<>>)])

(* every call of load there can be *)
Loads ==
    [id : 1..MaxLoads,
     params : [sort : {"date-desc", "alpha-asc"}, from : {""}, to : {""},
               q : {"", "a"}]]

InitDash ==
    /\ Mounted /\ hasOnAdded
    /\ DashMounted
    /\ AuthMounted /\ route = "/home"
    /\ fnArgs = Null
    /\ fnResult = Null

NextDash ==
    \/ Dash_useEffect
    \/ \E e \in FilterEdits : Dash_setFilters(e[1], e[2])
    \/ Dash_reset
    \/ Dash_apply
    \/ Dash_submitFinal
    \/ Dash_onAdded
    \/ \E l \in Loads, data \in DashData : Dash_loadOk(l, data)
    \/ \E l \in Loads : Dash_loadFail(l)

SpecDash == InitDash /\ [][NextDash]_vars

-----------------------------------------------------------------------------
(* The session: AuthProvider (src/src/auth/useAuth.ts lines 40-125),        *)
(* ProtectedRoute (src/unnamed/part_005), the Login form in its two         *)
(* versions (impl = "opt": src/src/components/Login.tsx, impl = "pess":     *)
(* src/unnamed/part_002) and the Signup form (src/unnamed/part_004), under  *)
(* the routes of src/src/main.tsx.                                          *)

(* a value of user that is not null and not truthy *)
JsFalse == [t |-> "boolean", v |-> FALSE]

UserA == [id |-> "u1", email |-> "a@x.io", isVerified |-> TRUE]

(* value ?? null *)
OrNull(value) == IF value \in {JsUndefined, Null} THEN Null ELSE value

(* !value is false *)
Truthy(value) == value \notin {JsUndefined, Null, JsFalse}

(* res.data of GET /auth/me and of POST /auth/signup: null, or an object    *)
(* with the properties user and message                                     *)
BodyNull == [kind |-> "null", user |-> JsUndefined, message |-> ""]
Body(u, m) == [kind |-> "object", user |-> u, message |-> m]

MeData == {Body(UserA, ""), Body(JsUndefined, ""), Body(JsFalse, ""), BodyNull}

SignupData ==
    {Body(JsUndefined, "Check your email"), Body(UserA, ""), BodyNull}

(* a rejected request: without a response, or with response.data.error *)
Unauthorized == [status |-> 401, error |-> "Invalid credentials", conflicts |-> Null]
AuthErrors == {NetworkError, Unauthorized}

MsgLoginFailed == "Login failed"
MsgSignupFailed == "Signup failed"
MsgSignupDone ==
    "Signup successful! Please check your email to verify your account."

(* React.StrictMode runs the mount effect, its cleanup and the effect again *)
(* in a development build; a production build runs it once                  *)
StrictEffectRuns == 2

(* requests of one kind awaiting their response *)
MaxPending == 2

(* what ProtectedRoute returns *)
ProtectedRoute(loadingNow, userNow) ==
    IF loadingNow THEN "Loading..."
    ELSE IF ~Truthy(userNow) THEN "Navigate"
    ELSE "children"

(* the handlers of a form that is no longer rendered keep running *)
OrphanLogins(lg) ==
    [post |-> 0, me |-> 0,
     orphanPost |-> lg.orphanPost + lg.post, orphanMe |-> lg.orphanMe + lg.me]
OrphanSignups(sg) == [live |-> 0, orphan |-> sg.orphan + sg.live]

nonAuthVars == <<addWordsVars, dashVars>>
bootVars == <<bootGets, bootLive>>

(* The router renders the element of path to: a form that is replaced is    *)
(* unmounted, a form that is entered starts from its initial state. lg, m,  *)
(* il, sg and sm are what the step leaves in the forms if they stay.        *)
Navigate(to, lg, m, il, sg, sm) ==
    /\ route' = to
    /\ logins' = IF to = "/login" THEN lg ELSE OrphanLogins(lg)
    /\ msg' = IF to = "/login" /\ route = "/login" THEN m ELSE ""
    /\ isLoading' = IF to = "/login" /\ route = "/login" THEN il ELSE FALSE
    /\ signups' = IF to = "/signup" THEN sg ELSE OrphanSignups(sg)
    /\ signupMsg' = IF to = "/signup" /\ route = "/signup" THEN sm ELSE NoMessage

formVars == <<route, logins, msg, isLoading, signups, signupMsg>>

(* the mount effect of AuthProvider, run n times: every run but the last    *)
(* has been cleaned up (mounted = false) before its GET /auth/me answers    *)
Auth_useEffect(n) ==
    /\ bootLive = 0
    /\ bootGets' = 1..n
    /\ bootLive' = n
    /\ lastAuth' = Step("boot", "called", TRUE, "", "none", TRUE)
    /\ UNCHANGED <<nonAuthVars, user, authLoading, formVars, logouts>>

(* GET /auth/me of effect run id resolved *)
Auth_meOk(id, data) ==
    /\ id \in bootGets
    /\ bootGets' = bootGets \ {id}
    /\ IF id = bootLive
       THEN /\ user' = IF data.kind = "null" THEN Null ELSE OrNull(data.user)
            /\ authLoading' = FALSE
       ELSE UNCHANGED <<user, authLoading>>
    /\ lastAuth' = Step("boot", IF data.kind = "null" THEN "threw" ELSE "returned",
                        id = bootLive, "", "me", TRUE)
    /\ UNCHANGED <<nonAuthVars, bootLive, formVars, logouts>>

(* the effect without its finally *)
Auth_meFail_noFinally(id, err) ==
    /\ id \in bootGets
    /\ bootGets' = bootGets \ {id}
    /\ IF id = bootLive
       THEN /\ user' = Null
            /\ UNCHANGED authLoading
       ELSE UNCHANGED <<user, authLoading>>
    /\ lastAuth' = Step("boot", "threw", id = bootLive, "", "me", FALSE)
    /\ UNCHANGED <<nonAuthVars, bootLive, formVars, logouts>>

(* GET /auth/me of effect run id rejected *)
Auth_meFail(id, err) ==
    /\ id \in bootGets
    /\ bootGets' = bootGets \ {id}
    /\ IF id = bootLive
       THEN /\ user' = Null
            /\ authLoading' = FALSE
       ELSE UNCHANGED <<user, authLoading>>
    /\ lastAuth' = Step("boot", "threw", id = bootLive, "", "me", FALSE)
    /\ UNCHANGED <<nonAuthVars, bootLive, formVars, logouts>>

(* <Navigate to="/login" replace /> returned by ProtectedRoute *)
ProtectedRoute_redirect ==
    /\ route = "/home"
    /\ ProtectedRoute(authLoading, user) = "Navigate"
    /\ Navigate("/login", logins, msg, isLoading, signups, signupMsg)
    /\ lastAuth' = Step("route", "redirect", TRUE, "", "none", TRUE)
    /\ UNCHANGED <<nonAuthVars, user, authLoading, bootVars, logouts>>

(* <Link to="/signup"> of Login, <Link to="/login"> of Signup *)
Link_to(to) ==
    /\ bootLive # 0
    /\ \/ route = "/login" /\ to = "/signup"
       \/ route = "/signup" /\ to = "/login"
    /\ Navigate(to, logins, msg, isLoading, signups, signupMsg)
    /\ lastAuth' = Step("route", "link", TRUE, "", "none", TRUE)
    /\ UNCHANGED <<nonAuthVars, user, authLoading, bootVars, logouts>>

Pending(lg) == lg.post + lg.me + lg.orphanPost + lg.orphanMe

(* Login: handle up to the POST /auth/login of login *)
Login_handle ==
    /\ bootLive # 0
    /\ route = "/login"
    /\ impl = "pess" => ~isLoading
    /\ Pending(logins) < MaxPending
    /\ msg' = ""
    /\ isLoading' = (impl = "pess")
    /\ logins' = [logins EXCEPT !.post = @ + 1]
    /\ lastAuth' = Step("login", "called", TRUE, "", "none", TRUE)
    /\ UNCHANGED <<nonAuthVars, user, authLoading, bootVars, route, signups,
                   signupMsg, logouts>>

TakePost(lg, live) ==
    IF live THEN [lg EXCEPT !.post = @ - 1] ELSE [lg EXCEPT !.orphanPost = @ - 1]
TakeMe(lg, live) ==
    IF live THEN [lg EXCEPT !.me = @ - 1] ELSE [lg EXCEPT !.orphanMe = @ - 1]
HasPost(lg, live) == IF live THEN lg.post > 0 ELSE lg.orphanPost > 0
HasMe(lg, live) == IF live THEN lg.me > 0 ELSE lg.orphanMe > 0

(* POST /auth/login resolved: login goes on to GET /auth/me *)
Login_postOk(live) ==
    /\ HasPost(logins, live)
    /\ logins' = IF live THEN [logins EXCEPT !.post = @ - 1, !.me = @ + 1]
                 ELSE [logins EXCEPT !.orphanPost = @ - 1, !.orphanMe = @ + 1]
    /\ lastAuth' = Step("login", "awaiting", live, "", "login", TRUE)
    /\ UNCHANGED <<nonAuthVars, user, authLoading, bootVars, route, msg,
                   isLoading, signups, signupMsg, logouts>>

(* login threw err: the catch of handle, then its finally (part_002) *)
Login_catch(lg, live, err, request, resolved) ==
    /\ Navigate(route, lg, IF live THEN ErrMessage(err, MsgLoginFailed) ELSE msg,
                IF live THEN FALSE ELSE isLoading, signups, signupMsg)
    /\ lastAuth' = Step("login", "threw", live, ErrMessage(err, MsgLoginFailed),
                        request, resolved)
    /\ UNCHANGED <<nonAuthVars, user, authLoading, bootVars, logouts>>

(* POST /auth/login rejected *)
Login_postFail(live, err) ==
    /\ HasPost(logins, live)
    /\ Login_catch(TakePost(logins, live), live, err, "login", FALSE)

(* login with setUser moved before the GET /auth/me *)
Login_meFail_userSet(live, err) ==
    /\ HasMe(logins, live)
    /\ Navigate(route, TakeMe(logins, live),
                IF live THEN ErrMessage(err, MsgLoginFailed) ELSE msg,
                IF live THEN FALSE ELSE isLoading, signups, signupMsg)
    /\ lastAuth' = Step("login", "threw", live, ErrMessage(err, MsgLoginFailed),
                        "me", FALSE)
    /\ user' = UserA
    /\ UNCHANGED <<nonAuthVars, authLoading, bootVars, logouts>>

(* GET /auth/me of login rejected *)
Login_meFail(live, err) ==
    /\ HasMe(logins, live)
    /\ Login_catch(TakeMe(logins, live), live, err, "me", FALSE)

(* GET /auth/me of login resolved with a body that is null: reading         *)
(* me.data.user throws a TypeError, which has no response                   *)
Login_meNull(live) ==
    /\ HasMe(logins, live)
    /\ Login_catch(TakeMe(logins, live), live, NetworkError, "me", TRUE)

(* GET /auth/me of login resolved: setUser, return, navigate("/home"), and  *)
(* the finally of handle (part_002)                                         *)
Login_meOk(live, data) ==
    /\ HasMe(logins, live)
    /\ data.kind # "null"
    /\ user' = OrNull(data.user)
    /\ Navigate("/home", TakeMe(logins, live), msg, FALSE, signups, signupMsg)
    /\ lastAuth' = Step("login", "returned", live, "", "me", TRUE)
    /\ UNCHANGED <<nonAuthVars, authLoading, bootVars, logouts>>

(* Signup: submit up to the POST /auth/signup of signup *)
Signup_submit ==
    /\ bootLive # 0
    /\ route = "/signup"
    /\ signups.live + signups.orphan < MaxPending
    /\ signupMsg' = NoMessage
    /\ signups' = [signups EXCEPT !.live = @ + 1]
    /\ lastAuth' = Step("signup", "called", TRUE, "", "none", TRUE)
    /\ UNCHANGED <<nonAuthVars, user, authLoading, bootVars, route, logins,
                   msg, isLoading, logouts>>

TakeSignup(sg, live) ==
    IF live THEN [sg EXCEPT !.live = @ - 1] ELSE [sg EXCEPT !.orphan = @ - 1]
HasSignup(sg, live) == IF live THEN sg.live > 0 ELSE sg.orphan > 0

(* res?.message || "Signup successful! ..." *)
SignupMessage(data) ==
    IF data.kind # "null" /\ data.message # "" THEN data.message
    ELSE MsgSignupDone

(* signup that signs the user in from the response *)
Signup_ok_signedIn(live, data) ==
    /\ HasSignup(signups, live)
    /\ Navigate(route, logins, msg, isLoading, TakeSignup(signups, live),
                IF live THEN SignupMessage(data) ELSE signupMsg)
    /\ lastAuth' = Step("signup", "returned", live, SignupMessage(data),
                        "signup", TRUE)
    /\ user' = IF data.kind = "null" THEN user ELSE OrNull(data.user)
    /\ UNCHANGED <<nonAuthVars, authLoading, bootVars, logouts>>

(* POST /auth/signup resolved: signup returns res.data *)
Signup_ok(live, data) ==
    /\ HasSignup(signups, live)
    /\ Navigate(route, logins, msg, isLoading, TakeSignup(signups, live),
                IF live THEN SignupMessage(data) ELSE signupMsg)
    /\ lastAuth' = Step("signup", "returned", live, SignupMessage(data),
                        "signup", TRUE)
    /\ UNCHANGED <<nonAuthVars, user, authLoading, bootVars, logouts>>

(* POST /auth/signup rejected: signup throws, the catch of submit *)
Signup_fail(live, err) ==
    /\ HasSignup(signups, live)
    /\ Navigate(route, logins, msg, isLoading, TakeSignup(signups, live),
                IF live THEN ErrMessage(err, MsgSignupFailed) ELSE signupMsg)
    /\ lastAuth' = Step("signup", "threw", live, ErrMessage(err, MsgSignupFailed),
                        "signup", FALSE)
    /\ UNCHANGED <<nonAuthVars, user, authLoading, bootVars, logouts>>

(* Logout of the Dashboard: logout up to its POST /auth/logout *)
Auth_logout ==
    /\ bootLive # 0
    /\ route = "/home"
    /\ ProtectedRoute(authLoading, user) = "children"
    /\ logouts < MaxPending
    /\ logouts' = logouts + 1
    /\ lastAuth' = Step("logout", "called", TRUE, "", "none", TRUE)
    /\ UNCHANGED <<nonAuthVars, user, authLoading, bootVars, formVars>>

(* POST /auth/logout resolved: finally setUser(null) *)
Logout_ok ==
    /\ logouts > 0
    /\ logouts' = logouts - 1
    /\ user' = Null
    /\ lastAuth' = Step("logout", "returned", TRUE, "", "logout", TRUE)
    /\ UNCHANGED <<nonAuthVars, authLoading, bootVars, formVars>>

(* logout without its try *)
Logout_fail_noCatch(err) ==
    /\ logouts > 0
    /\ logouts' = logouts - 1
    /\ UNCHANGED user
    /\ lastAuth' = Step("logout", "threw", TRUE, "", "logout", FALSE)
    /\ UNCHANGED <<nonAuthVars, authLoading, bootVars, formVars>>

(* POST /auth/logout rejected: the catch logs, finally setUser(null) *)
Logout_fail(err) ==
    /\ logouts > 0
    /\ logouts' = logouts - 1
    /\ user' = Null
    /\ lastAuth' = Step("logout", "returned", TRUE, "", "logout", FALSE)
    /\ UNCHANGED <<nonAuthVars, authLoading, bootVars, formVars>>

InitAuth ==
    /\ Mounted /\ hasOnAdded
    /\ DashMounted
    /\ AuthMounted
    /\ fnArgs = Null
    /\ fnResult = Null

NextAuth ==
    \/ \E n \in 1..StrictEffectRuns : Auth_useEffect(n)
    \/ \E id \in 1..StrictEffectRuns, data \in MeData : Auth_meOk(id, data)
    \/ \E id \in 1..StrictEffectRuns, err \in AuthErrors : Auth_meFail(id, err)
    \/ ProtectedRoute_redirect
    \/ \E to \in Paths : Link_to(to)
    \/ Login_handle
    \/ \E live \in BOOLEAN : Login_postOk(live)
    \/ \E live \in BOOLEAN, err \in AuthErrors : Login_postFail(live, err)
    \/ \E live \in BOOLEAN, data \in MeData : Login_meOk(live, data)
    \/ \E live \in BOOLEAN : Login_meNull(live)
    \/ \E live \in BOOLEAN, err \in AuthErrors : Login_meFail(live, err)
    \/ Signup_submit
    \/ \E live \in BOOLEAN, data \in SignupData : Signup_ok(live, data)
    \/ \E live \in BOOLEAN, err \in AuthErrors : Signup_fail(live, err)
    \/ Auth_logout
    \/ Logout_ok
    \/ \E err \in AuthErrors : Logout_fail(err)

SpecAuth == InitAuth /\ [][NextAuth]_vars

(* Every suspended handler keeps loading = TRUE, so the guard ~loading of   *)
(* the two buttons admits one running handler at a time.                    *)
OneHandler == pc # "idle" => loading

-----------------------------------------------------------------------------
(* Steps of a run, recognised from the history variables *)

(* the POST /words of the running submitFinal has just failed with err *)
SubmitFailed ==
    /\ pc = "submit"
    /\ lastResp'.op = "submit"
    /\ ~lastResp'.ok

Is409(err) == err.status = 409 /\ err.conflicts # Null

(* the POST /words/validate of the running handleValidate has just failed *)
ValidateFailed ==
    /\ pc = "validate"
    /\ lastResp'.op = "validate"
    /\ ~lastResp'.ok

(* ... or has just been answered with data *)
ValidateAnswered ==
    /\ pc = "validate"
    /\ lastResp'.op = "validate"
    /\ lastResp'.ok

ReportsConflicts(data) ==
    /\ data.conflicts # Null
    /\ Len(data.conflicts.db) > 0 \/ Len(data.conflicts.inBatch) > 0

LowerKeySet(c) == Range(LowerAll(c.db \o c.inBatch))

ValidFinal(l) ==
    /\ Len(l) = RequiredCount
    /\ \A i \in 1..Len(l) : Trim(l[i]) # <<>>
    /\ \A i, j \in 1..Len(l) : ToLowerCase(l[i]) = ToLowerCase(l[j]) => i = j

-----------------------------------------------------------------------------
(* C1: when POST /words fails with 409 and a conflicts payload, then after   *)
(* the failure is handled the raw input is the text present when the submit  *)
(* was started, conflicts is the lowercased server payload and replacements  *)
(* maps exactly the server's keys to "".                                     *)
C1_Claim ==
    [][ (SubmitFailed /\ Is409(lastResp'.body)) =>
           /\ text' = textAtSubmit
           /\ conflicts' # Null
           /\ conflicts' = LowerConflicts(lastResp'.body.conflicts)
           /\ replacements' = [k \in LowerKeySet(lastResp'.body.conflicts) |-> <<>>]
      ]_vars

(* C2: when POST /words fails otherwise and the user did nothing while it    *)
(* was in flight, the raw input is the text present when the submit was      *)
(* started, the message is an error message and loading is false.            *)
C2_Claim ==
    [][ (SubmitFailed /\ ~Is409(lastResp'.body) /\ ~userActed) =>
           /\ text' = textAtSubmit
           /\ message' \notin {NoMessage, MsgSuccess}
           /\ loading' = FALSE
      ]_vars

(* C3: every POST /words in flight carries exactly 10 entries, none blank,   *)
(* pairwise distinct under lowercase comparison.                             *)
C3_Claim == pc = "submit" => ValidFinal(req)

(* C4: when POST /words/validate fails, a message is set, conflicts is the   *)
(* ConflictSet that existed before validation was requested, the handler     *)
(* leaves the raw input alone and loading is false.                          *)
C4_Claim ==
    [][ ValidateFailed =>
           /\ message' # NoMessage
           /\ conflicts' = closure.conflicts
           /\ text' = text
           /\ loading' = FALSE
      ]_vars

DupKeySet(p) ==
    { ToLowerCase(p[i]) : i \in { n \in 1..Len(p) :
          \E m \in 1..Len(p) : m # n /\ ToLowerCase(p[m]) = ToLowerCase(p[n]) } }

(* C5: 'Validate & Submit' on exactly 10 parsed words with a repeated        *)
(* WordKey sends no request, sets conflicts to {db: [], inBatch: the         *)
(* repeated keys}, replacements to "" for each of them, and the 'replace     *)
(* duplicates' message.                                                      *)
C5_Claim ==
    [][ ( /\ Opt_handleValidate \/ Pess_handleValidate
          /\ Len(parsed(impl, text)) = RequiredCount
          /\ DupKeySet(parsed(impl, text)) # {} ) =>
           /\ pc' = "idle"
           /\ req' = <<>>
           /\ conflicts' # Null
           /\ conflicts'.db = <<>>
           /\ Range(conflicts'.inBatch) = DupKeySet(parsed(impl, text))
           /\ replacements' = [k \in DupKeySet(parsed(impl, text)) |-> <<>>]
           /\ message' = MsgReplaceLocal
      ]_vars

(* C6: right after a validation response with db conflicts every db key is   *)
(* in replacements with value "", and while conflicts is shown and the        *)
(* replacement of a db key is blank isFinalValid() is false.                  *)
C6_Claim ==
    /\ ( /\ pc = "idle"
         /\ lastResp.op = "validate" /\ lastResp.ok
         /\ ReportsConflicts(lastResp.body) ) =>
          \A k \in Range(LowerAll(lastResp.body.conflicts.db)) :
              k \in DOMAIN replacements /\ replacements[k] = <<>>
    /\ conflicts # Null =>
          \A k \in Range(LowerAll(conflicts.db)) :
              (k \in DOMAIN replacements /\ Trim(replacements[k]) = <<>>)
                 => ~isFinalValid(impl, text, replacements)

(* C7: optimistic controller: while POST /words is in flight and the user    *)
(* has done nothing else, loading is true, the message is the provisional    *)
(* success message and text, conflicts and replacements are empty.           *)
C7_Thm ==
    (impl = "opt" /\ pc = "submit" /\ ~userActed) =>
        /\ loading
        /\ message = MsgSuccess
        /\ text = <<>>
        /\ conflicts = Null
        /\ replacements = EmptyMap

C7_Witness ==
    /\ impl = "opt" /\ pc = "submit" /\ ~userActed
    /\ rollbackRef.text # <<>>
    /\ rollbackRef.conflicts # Null
    /\ DOMAIN rollbackRef.replacements # {}
    /\ text = <<>> /\ conflicts = Null /\ message = MsgSuccess

(* C8: the keys of replacements are always among db and inBatch of the       *)
(* current ConflictSet, and there are none when conflicts is null.           *)
C8_Claim == DOMAIN replacements \subseteq ConflictKeys(conflicts)

(* C9: a validation response reporting conflicts stores the lowercased       *)
(* ConflictSet, sets replacements to "" for exactly the lowercased returned  *)
(* keys, and issues no persistence request.                                  *)
C9_Claim ==
    [][ (ValidateAnswered /\ ReportsConflicts(lastResp'.body)) =>
           /\ conflicts' = LowerConflicts(lastResp'.body.conflicts)
           /\ replacements' = [k \in LowerKeySet(lastResp'.body.conflicts) |-> <<>>]
           /\ pc' = "idle"
           /\ req' = <<>>
      ]_vars

(* the validation response of a run started on 10 pairwise-distinct words    *)
(* reports no conflicts                                                      *)
ValidatedClean ==
    /\ ValidateAnswered
    /\ ~ReportsConflicts(lastResp'.body)
    /\ Len(parsed(impl, closure.text)) = RequiredCount
    /\ DupKeySet(parsed(impl, closure.text)) = {}

(* C10 as claimed: ... the POST /words issued in the same step carries the   *)
(* current FinalWordList, and conflicts is null before and after.            *)
C10_Claim ==
    [][ ValidatedClean =>
           /\ pc' = "submit"
           /\ req' = buildFinal(impl, text, replacements)
           /\ conflicts = Null /\ conflicts' = Null
      ]_vars

(* C10 amended: when 10 pairwise-distinct words were entered and the         *)
(* validation response reports no conflicts, POST /words is issued in the    *)
(* same step, carrying the FinalWordList of the render in which 'Validate &  *)
(* Submit' was clicked, and conflicts is null before and after.              *)
C10_Thm ==
    [][ ValidatedClean =>
           /\ pc' = "submit"
           /\ req' = buildFinal(impl, closure.text, closure.replacements)
           /\ conflicts = Null /\ conflicts' = Null
      ]_vars

C10_Witness ==
    /\ pc = "submit" /\ trigger = "validate" /\ ~userActed
    /\ lastResp.op = "validate" /\ lastResp.ok /\ ~ReportsConflicts(lastResp.body)
    /\ ValidFinal(req)
    \* the input was edited while validation was in flight
    /\ Len(parsed(impl, textAtSubmit)) = RequiredCount
    /\ parsed(impl, textAtSubmit) # req
    /\ conflicts = Null

-----------------------------------------------------------------------------
(* handleValidate has been called in a render whose parsed count is not 10 *)
CalledWithWrongCount ==
    /\ Opt_callHandleValidate \/ Pess_callHandleValidate
    /\ Len(parsed(impl, text)) # RequiredCount

(* C11: when handleValidate is called and the number of parsed words is not  *)
(* 10, the message set by the call names the actual parsed count, and no     *)
(* request is sent: no handler is left awaiting a response and no word list  *)
(* is in flight.                                                             *)
C11_Thm ==
    [][ CalledWithWrongCount =>
           /\ message' = "Please enter exactly 10 words. You entered "
                             \o ToString(Len(parsed(impl, text))) \o "."
           /\ pc' = "idle" /\ req' = <<>> /\ ~loading'
           /\ conflicts' = Null
      ]_vars

C11_Witness ==
    /\ text = TextShort
    /\ message = "Please enter exactly 10 words. You entered 2."
    /\ pc = "idle" /\ req = <<>> /\ ~loading

-----------------------------------------------------------------------------
(* C12: loading is false whenever no validate or submit handler is in        *)
(* progress; so every handler run that has ended, whether POST /words        *)
(* succeeded, failed with 409 or failed otherwise, has left loading false.   *)
C12_Thm == pc = "idle" => ~loading

C12_Witness ==
    /\ pc = "idle" /\ ~loading
    /\ lastResp.op = "submit" /\ ~lastResp.ok /\ Is409(lastResp.body)

-----------------------------------------------------------------------------
(* C13: once the component is torn down, a response that arrives afterwards  *)
(* is discarded: no step changes message, conflicts, replacements, text,     *)
(* loading or the saved words, and no step calls onAdded.                    *)
C13_Claim ==
    [][ cancelled =>
           /\ compState' = compState
           /\ ~(pc # "onAdded" /\ pc' = "onAdded")
      ]_vars

-----------------------------------------------------------------------------
(* a click starts a validate or submit handler *)
StartsHandler ==
    \/ Opt_handleValidate
    \/ Opt_submitReplacements
    \/ Pess_handleValidate
    \/ Pess_handleSubmitReplacements

(* C14: at most one validate-or-persistence request is in flight: loading is *)
(* true in every state in which a handler awaits a response, and a click on  *)
(* 'Validate & Submit' or 'Submit replacements' starts a handler only when   *)
(* loading is false and no handler is awaiting.                              *)
C14_Thm ==
    /\ [](pc # "idle" => loading)
    /\ [][ StartsHandler => (~loading /\ pc = "idle") ]_vars

C14_Witness ==
    /\ pc \in {"validate", "submit"} /\ loading
    \* the user has meanwhile typed a batch the buttons would accept
    /\ userActed
    /\ Len(parsed(impl, text)) = RequiredCount
    /\ text # textAtSubmit

-----------------------------------------------------------------------------
(* the POST /words of the running submitFinal has just succeeded *)
SubmitSucceeded ==
    /\ pc = "submit"
    /\ lastResp'.op = "submit"
    /\ lastResp'.ok

(* the GET /words issued after a submit has just been answered *)
RefreshAnswered ==
    /\ pc = "refresh"
    /\ lastResp'.op = "refresh"
    /\ lastResp'.ok

(* C15: a mirror fetch is in flight when the component has mounted; the step *)
(* that handles a successful POST /words calls onAdded if there is one, and  *)
(* the handler then issues GET /words (at once without onAdded, else when    *)
(* the onAdded call is over); the step that handles a successful refresh     *)
(* sets savedWords to the normalized list of the response.                   *)
C15_Claim ==
    /\ loadPc = "get"
    /\ [][ SubmitSucceeded =>
              pc' = IF hasOnAdded THEN "onAdded" ELSE "refresh" ]_vars
    /\ [][ (pc = "onAdded" /\ pc' # "onAdded") => pc' = "refresh" ]_vars
    /\ [][ RefreshAnswered => savedWords' = savedFromData(lastResp'.body) ]_vars

-----------------------------------------------------------------------------
(* the mount-time GET /words has just failed *)
LoadFailed == loadPc = "get" /\ loadPc' = "failed"

(* the GET /words issued after a submit has just failed *)
RefreshFailed ==
    /\ pc = "refresh"
    /\ lastResp'.op = "refresh"
    /\ ~lastResp'.ok

(* C16: the step that handles a failed mount-time fetch leaves text,         *)
(* conflicts, replacements, message and loading as they are and, in a        *)
(* mounted component, sets savedError and empties savedWords; the step that  *)
(* handles a failed refresh after a successful submit finds and leaves the   *)
(* success message, null conflicts and empty replacements, and changes       *)
(* neither the text nor savedWords nor savedError.                           *)
C16_Thm ==
    /\ [][ LoadFailed =>
              /\ UNCHANGED <<text, conflicts, replacements, message, loading>>
              /\ ~cancelled =>
                    /\ savedError' = "Failed to load saved words"
                    /\ savedWords' = <<>>
          ]_vars
    /\ [][ RefreshFailed =>
              /\ message = "Words added successfully!" /\ message' = message
              /\ conflicts = Null /\ conflicts' = Null
              /\ replacements = EmptyMap /\ replacements' = EmptyMap
              /\ ~userActed => text = <<>>
              /\ UNCHANGED <<text, savedWords, savedError>>
          ]_vars

C16_Witness ==
    /\ loadPc = "failed"
    /\ savedError = "Failed to load saved words" /\ savedWords = <<>>
    /\ pc = "idle"
    /\ lastResp.op = "refresh" /\ ~lastResp.ok
    /\ message = "Words added successfully!"
    /\ text = <<>> /\ conflicts = Null /\ replacements = EmptyMap

-----------------------------------------------------------------------------
(* the user has typed v into the replacement field shown for conflict key k *)
EditsReplacement(k, v) == Opt_editReplacement(k, v) \/ Pess_editReplacement(k, v)

(* the map m with the entry of key k left out *)
Without(m, k) == [x \in DOMAIN m \ {k} |-> m[x]]

(* C17: in conflict review (conflicts non-null) a replacement edit changes   *)
(* at most one entry of replacements, the one of the edited key, and leaves  *)
(* conflicts, the raw input and loading unchanged; and a step takes          *)
(* conflicts from non-null to null only if it is Cancel or the handling of   *)
(* a successful POST /words.                                                 *)
C17_Claim ==
    /\ [][ \A k \in EditorKeys, v \in RepInputs :
              EditsReplacement(k, v) =>
                 /\ conflicts # Null
                 /\ UNCHANGED <<conflicts, text, loading>>
                 /\ \E key \in {k, ToLowerCase(k)} :
                       /\ replacements'[key] = v
                       /\ Without(replacements', key) = Without(replacements, key)
          ]_vars
    /\ [][ (conflicts # Null /\ conflicts' = Null) =>
              (Pess_cancel \/ SubmitSucceeded) ]_vars

-----------------------------------------------------------------------------
(* the Clear button has been clicked *)
Cleared == Opt_clear \/ Pess_clear

(* C18 as claimed: the step of Clear, of Cancel and of handling a successful *)
(* POST /words ends with conflicts null and replacements empty, and the step *)
(* of Clear and of a successful submit ends with the raw input empty.        *)
C18_Claim ==
    [][ (Cleared \/ Pess_cancel \/ SubmitSucceeded) =>
           /\ conflicts' = Null
           /\ replacements' = EmptyMap
           /\ (Cleared \/ SubmitSucceeded) => text' = <<>>
      ]_vars

(* C18, amended: as claimed, except that a successful submit of the          *)
(* optimistic version, which empties the raw input when the submit starts,   *)
(* leaves in place what the user has typed while the request was in flight.  *)
C18_Thm ==
    [][ (Cleared \/ Pess_cancel \/ SubmitSucceeded) =>
           /\ conflicts' = Null
           /\ replacements' = EmptyMap
           /\ Cleared => text' = <<>>
           /\ SubmitSucceeded => (text' = <<>> \/ (impl = "opt" /\ userActed))
      ]_vars

C18_Witness ==
    /\ lastResp.op = "submit" /\ lastResp.ok
    \* the submit came out of a conflict review, whose editor holds the button
    /\ trigger = "replacements"
    /\ textAtSubmit # <<>>
    /\ conflicts = Null /\ replacements = EmptyMap /\ text = <<>>

-----------------------------------------------------------------------------
(* C19: for every text and replacements map, isFinalValid() returns true if  *)
(* and only if the final word list has exactly 10 entries, none of them      *)
(* blank, and the set of its lowercased entries has 10 elements.             *)
C19_Thm ==
    fnResult # Null =>
       LET f == fnResult.final
       IN fnResult.valid <=>
             /\ Len(f) = 10
             /\ \A i \in 1..Len(f) : Trim(f[i]) # <<>>
             /\ Cardinality({ ToLowerCase(f[i]) : i \in 1..Len(f) }) = 10

C19_Witness ==
    /\ fnResult # Null
    /\ fnResult.valid
    \* a replacement is part of the final list
    /\ fnResult.final # fnResult.parsed
    \* and the text has its words in mixed case
    /\ \E i \in 1..Len(fnResult.parsed) :
          ToLowerCase(fnResult.parsed[i]) # fnResult.parsed[i]

(* the entry of the final list for parsed word w under the map reps *)
FinalEntry(w, reps) ==
    LET key == ToLowerCase(Trim(w))
    IN IF key \in DOMAIN reps /\ Trim(reps[key]) # <<>>
       THEN Trim(reps[key]) ELSE w

(* C20: the final word list has the length and order of the parsed list:     *)
(* its i-th entry is the trimmed replacement stored under the lowercased     *)
(* i-th parsed word if that entry exists and is not blank, and the i-th      *)
(* parsed word itself otherwise; and no entry of it is blank.                *)
C20_Thm ==
    fnResult # Null =>
       LET p == fnResult.parsed
           f == fnResult.final
       IN /\ Len(f) = Len(p)
          /\ \A i \in 1..Len(p) : f[i] = FinalEntry(p[i], fnArgs.replacements)
          /\ \A i \in 1..Len(f) : Trim(f[i]) # <<>>

C20_Witness ==
    /\ fnResult # Null
    /\ LET p == fnResult.parsed
           f == fnResult.final
           reps == fnArgs.replacements
       IN \* one word is replaced by a replacement typed with a trailing space
          /\ \E i \in 1..Len(p) :
                /\ ToLowerCase(p[i]) \in DOMAIN reps
                /\ f[i] # p[i] /\ f[i] # reps[ToLowerCase(p[i])]
          \* and one word has a blank entry and is kept
          /\ \E j \in 1..Len(p) :
                /\ ToLowerCase(p[j]) \in DOMAIN reps
                /\ reps[ToLowerCase(p[j])] = <<" ">>
                /\ f[j] = p[j]

-----------------------------------------------------------------------------
(* C21: for every parsed list, inBatchDupKeys holds exactly the lowercased   *)
(* words that occur more than once in the list, each once, and is empty when *)
(* the words are pairwise distinct under lowercase comparison.               *)
C21_Thm ==
    (fnResult # Null /\ impl = "pess") =>
       LET p == fnResult.parsed
           d == fnResult.dups
       IN /\ Range(d) =
                { ToLowerCase(p[i]) : i \in { n \in 1..Len(p) :
                     \E m \in 1..Len(p) :
                        m # n /\ ToLowerCase(p[m]) = ToLowerCase(p[n]) } }
          /\ \A i, j \in 1..Len(d) : d[i] = d[j] => i = j
          /\ (\A i, j \in 1..Len(p) :
                 ToLowerCase(p[i]) = ToLowerCase(p[j]) => i = j) => d = <<>>

C21_Witness ==
    /\ fnResult # Null /\ impl = "pess"
    \* two keys are repeated, one of them three times and in mixed case
    /\ fnResult.dups = << <<"a">>, <<"b">> >>
    /\ Len(fnResult.parsed) = 6

-----------------------------------------------------------------------------
(* the stretches of t between runs of newline, comma and semicolon that hold *)
(* a character other than white space, as pairs of first and last index      *)
WordStretches(t) ==
    LET Sep(i) == t[i] \in {"\n", ",", ";"}
    IN { st \in (1..Len(t)) \X (1..Len(t)) :
           /\ st[1] <= st[2]
           /\ st[1] = 1 \/ Sep(st[1] - 1)
           /\ st[2] = Len(t) \/ Sep(st[2] + 1)
           /\ \A k \in st[1]..st[2] : ~Sep(k)
           /\ \E k \in st[1]..st[2] : ~IsWhite(t[k]) }

(* w is the stretch st of t without the white space at its two ends *)
IsTrimmed(w, t, st) ==
    \E a \in st[1]..st[2], b \in st[1]..st[2] :
        /\ a <= b
        /\ ~IsWhite(t[a]) /\ ~IsWhite(t[b])
        /\ \A k \in st[1]..(a - 1) : IsWhite(t[k])
        /\ \A k \in (b + 1)..st[2] : IsWhite(t[k])
        /\ w = SubSeq(t, a, b)

(* C22: the parsed list is made of the stretches of the raw input between    *)
(* runs of newline, comma and semicolon, and of nothing else: each trimmed,  *)
(* the blank ones left out, in the order of the input, the first 100 of      *)
(* them; so a word with a space inside is one entry.                         *)
C22_Claim ==
    fnResult # Null =>
       LET t == fnArgs.text
           p == fnResult.parsed
           W == WordStretches(t)
       IN /\ Len(p) = IF Cardinality(W) < 100 THEN Cardinality(W) ELSE 100
          /\ \A n \in 1..Len(p) :
                \E st \in W :
                   /\ Cardinality({o \in W : o[1] < st[1]}) = n - 1
                   /\ IsTrimmed(p[n], t, st)

-----------------------------------------------------------------------------
(* C23: for every raw input the parsed list has at most 100 words, and the   *)
(* parsed list of its words written back with a comma, a semicolon or a      *)
(* newline between them is the same list.                                    *)
C23_Thm ==
    fnResult # Null =>
       /\ Len(fnResult.parsed) <= 100
       /\ \A d \in {",", ";", "\n"} : fnResult.reparsed[d] = fnResult.parsed

C23_Witness ==
    /\ fnResult # Null
    \* 101 words were typed and the last one is cut off
    /\ fnArgs.text = TextLong
    /\ Len(fnResult.parsed) = 100
    /\ \A i \in 1..100 : fnResult.parsed[i] = <<"a">>
    /\ fnResult.reparsed[";"] = fnResult.parsed

-----------------------------------------------------------------------------
(* the list found in a GET /words response under the property name: the      *)
(* response itself for a bare array and "mine", the property of an envelope  *)
(* if it is a list, the empty list for anything else                         *)
ListIn(data, name) ==
    IF data.kind = "array" THEN (IF name = "mine" THEN data.items ELSE <<>>)
    ELSE IF data.kind = "object" /\ data[name].t = "array" THEN data[name].v
    ELSE <<>>

(* C24: for every shape of a GET /words response, the saved words of the     *)
(* controller are the user's list of the response, entry by entry, and the   *)
(* Dashboard's myWords and allWords are the user's list and the all-users    *)
(* list of the response; both are the empty list when the response holds no  *)
(* such list.                                                                *)
C24_Claim ==
    fnResult # Null =>
       LET mine == ListIn(fnArgs.data, "mine")
           all == ListIn(fnArgs.data, "all")
       IN /\ Len(fnResult.saved) = Len(mine)
          /\ \A i \in 1..Len(mine) : fnResult.saved[i].word = Trim(mine[i].word)
          /\ fnResult.dash.myWords = [t |-> "array", v |-> mine]
          /\ fnResult.dash.allWords = [t |-> "array", v |-> all]

-----------------------------------------------------------------------------
(* the onAdded call made after a successful POST /words has just thrown or   *)
(* rejected                                                                  *)
HookRejected ==
    /\ pc = "onAdded"
    /\ lastResp'.op = "onAdded"
    /\ ~lastResp'.ok

(* C25: the step that handles a throwing or rejecting onAdded, which is      *)
(* called only after POST /words has succeeded, leaves the raw input as it   *)
(* is (the submitted batch is not put back) and leaves the success message   *)
(* (no 'Submit failed' and no other error message is set).                   *)
C25_Claim ==
    [][ HookRejected =>
           /\ text' = text
           /\ message = "Words added successfully!"
           /\ message' = message
      ]_vars

-----------------------------------------------------------------------------
(* two entries of the list p have the same lowercased form *)
HasRepeatedKey(p) ==
    \E i, j \in 1..Len(p) : i # j /\ ToLowerCase(p[i]) = ToLowerCase(p[j])

(* C26: whenever the parsed list has two words with the same lowercased      *)
(* form, isFinalValid() is false whatever the replacements map is (one entry *)
(* is applied to every occurrence of its key, so the final list repeats a    *)
(* word too); so 'Submit replacements', which is disabled unless             *)
(* isFinalValid(), is disabled in every render of such a raw input.          *)
C26_Thm ==
    (fnResult # Null /\ HasRepeatedKey(fnResult.parsed)) =>
       /\ ~fnResult.valid
       /\ HasRepeatedKey(fnResult.final)

C26_Witness ==
    /\ fnResult # Null
    /\ Len(fnResult.parsed) = 10
    \* a replacement is typed for the repeated key and lands on both words
    /\ \E i, j \in 1..10 :
          /\ i # j
          /\ fnResult.parsed[i] # fnResult.parsed[j]
          /\ ToLowerCase(fnResult.parsed[i]) = ToLowerCase(fnResult.parsed[j])
          /\ fnResult.final[i] = <<"k">> /\ fnResult.final[j] = <<"k">>
    /\ ~fnResult.valid

-----------------------------------------------------------------------------
(* C27: when the user has typed a non-blank replacement v into the editor    *)
(* field shown for conflict key k, the final word list of the resulting      *)
(* state has v, trimmed, at every parsed word whose lowercase form is the    *)
(* lowercase form of k, in whatever letter case the conflicts response       *)
(* spelled k.                                                                *)
C27_Claim ==
    [][ \A k \in EditorKeys, v \in RepInputs :
          (EditsReplacement(k, v) /\ Trim(v) # <<>>) =>
             LET p == parsed(impl, text')
                 f == buildFinal(impl, text', replacements')
             IN \A i \in 1..Len(p) :
                   ToLowerCase(p[i]) = ToLowerCase(k) => f[i] = Trim(v)
      ]_vars

-----------------------------------------------------------------------------
(* s is the state of the current render *)
IsCurrentRender(s) ==
    /\ s.text = text /\ s.conflicts = conflicts /\ s.replacements = replacements
    /\ s.message = message /\ s.loading = loading
    /\ s.savedWords = savedWords /\ s.savedLoading = savedLoading
    /\ s.savedError = savedError

-----------------------------------------------------------------------------
StateFields ==
    {"text", "conflicts", "replacements", "message", "loading",
     "savedWords", "savedLoading", "savedError"}

(* the fields an action of the given type may change *)
OwnFields(type) ==
    CASE type = "SET_TEXT" -> {"text"}
      [] type = "SET_LOADING" -> {"loading"}
      [] type = "SET_MESSAGE" -> {"message"}
      [] type = "SET_CONFLICTS" -> {"conflicts"}
      [] type = "SET_REPLACEMENTS" -> {"replacements"}
      [] type = "SET_SAVED" -> {"savedWords"}
      [] type = "RESET_FORM" -> {"text", "conflicts", "replacements"}
      [] OTHER -> {}

-----------------------------------------------------------------------------
(* C30: in the Dashboard, once every load that was called has ended, the    *)
(* lists allWords and myWords are the ones stored by the load that was      *)
(* called last; and as long as a load is awaiting its response, loading is  *)
(* true.                                                                    *)
C30_Claim ==
    /\ (issued > 0 /\ inFlight = {}) =>
          [allWords |-> allWords, myWords |-> myWords] = latest
    /\ inFlight # {} => dashLoading

-----------------------------------------------------------------------------
(* Steps of the session, recognised from the history variable lastAuth *)

(* the GET /auth/me of the mount effect that has not been cleaned up has    *)
(* just been answered                                                       *)
BootAnswered ==
    /\ lastAuth'.op = "boot" /\ lastAuth'.request = "me"
    /\ lastAuth'.live

(* ... and the effect went through its catch *)
BootFailed == BootAnswered /\ lastAuth'.result = "threw"

(* a step of a login call, of a signup call, of a logout call *)
LoginStep == lastAuth'.op = "login"
SignupStep == lastAuth'.op = "signup"
LogoutEnded == lastAuth'.op = "logout" /\ lastAuth'.request = "logout"

(* C31: ProtectedRoute returns its children only when loading is false and  *)
(* user is not null; while the session check is in progress (loading is     *)
(* true, which is exactly as long as the mount effect has not run or its    *)
(* GET /auth/me is unanswered) it returns neither the children nor the      *)
(* redirect, and the router is not sent to /login; with loading false and   *)
(* user null it returns the redirect to /login. The step in which GET        *)
(* /auth/me of the mount effect is answered leaves loading false, and user  *)
(* null when the request was rejected or its body could not be read.        *)
C31_Thm ==
    /\ [](LET out == ProtectedRoute(authLoading, user)
          IN /\ out = "children" => ~authLoading /\ user # [null |-> TRUE]
             /\ authLoading => out \notin {"children", "Navigate"}
             /\ (~authLoading /\ user = [null |-> TRUE]) => out = "Navigate"
             /\ authLoading <=> (bootLive = 0 \/ bootLive \in bootGets))
    /\ [][(route = "/home" /\ route' = "/login") => ~authLoading]_vars
    /\ [][BootAnswered => ~authLoading']_vars
    /\ [][BootFailed => user' = [null |-> TRUE]]_vars

C31_Witness ==
    /\ route = "/home"
    /\ ProtectedRoute(authLoading, user) = "children"
    /\ lastAuth.op = "boot" /\ lastAuth.live /\ lastAuth.result = "returned"
    /\ bootLive = 2 /\ bootGets = {1}

(* C32: a step of login changes user only when it is the step in which GET  *)
(* /auth/me resolved and login returned, which a call reaches only through  *)
(* the resolved POST /auth/login; a step in which one of the two requests   *)
(* is rejected makes login throw, leaves user as it was, hands a non-empty  *)
(* message to setMsg (the msg of the form if it is still rendered) and      *)
(* leaves the route as it was.                                              *)
C32_Thm ==
    /\ [][(LoginStep /\ user' # user) =>
             /\ lastAuth'.result = "returned"
             /\ lastAuth'.request = "me" /\ lastAuth'.resolved
             /\ logins.me + logins.orphanMe > 0]_vars
    /\ [][(LoginStep /\ lastAuth'.request = "me") =>
             logins.me + logins.orphanMe > 0]_vars
    /\ [][(LoginStep /\ lastAuth'.result = "awaiting") =>
             /\ lastAuth'.request = "login" /\ lastAuth'.resolved
             /\ logins'.me + logins'.orphanMe =
                   logins.me + logins.orphanMe + 1]_vars
    /\ [][(LoginStep /\ lastAuth'.request # "none" /\ ~lastAuth'.resolved) =>
             /\ lastAuth'.result = "threw"
             /\ user' = user
             /\ lastAuth'.shown # ""
             /\ lastAuth'.live => msg' = lastAuth'.shown
             /\ route' = route]_vars

C32_Witness ==
    /\ lastAuth.op = "login" /\ lastAuth.request = "me"
    /\ ~lastAuth.resolved /\ lastAuth.live
    /\ route = "/login"
    /\ msg = "Login failed"
    /\ user # [null |-> TRUE]

(* C33: the step in which POST /auth/logout is answered, resolved or        *)
(* rejected, leaves user null, and logout returns: it does not throw.       *)
C33_Thm ==
    [][LogoutEnded =>
          /\ user' = [null |-> TRUE]
          /\ lastAuth'.result = "returned"]_vars

C33_Witness ==
    /\ lastAuth.op = "logout" /\ lastAuth.request = "logout"
    /\ ~lastAuth.resolved
    /\ lastAuth.result = "returned"
    /\ user = [null |-> TRUE]
    /\ route = "/home"

(* C34: no step of signup, the call, the return or the throw, changes user  *)
(* or adds a GET /auth/me to the requests awaiting their answer.            *)
C34_Thm ==
    [][SignupStep =>
          /\ user' = user
          /\ bootGets' = bootGets
          /\ logins' = logins]_vars

C34_Witness ==
    /\ lastAuth.op = "signup" /\ lastAuth.result = "returned"
    /\ lastAuth.shown = MsgSignupDone
    /\ ~authLoading
    /\ user = [null |-> TRUE]
    /\ route = "/signup"

====
